---- MODULE Spec2Model ----
(***************************************************************************)
(* BioQuest paper generator: the mark-distribution solver                  *)
(* (findDistribution), bank sampling (generateFromBank) and the            *)
(* generation orchestrator (handleGenerate) of                             *)
(* src/components/ExamArchive.tsx, lines 635-892.                          *)
(*                                                                         *)
(* Text inputs are sequences of one-character strings.  A comma separated  *)
(* setting ("1, 2, 3, 5") is the sequence of its pieces, and a piece of    *)
(* the mark distribution ("5x1") is the sequence of its 'x' separated      *)
(* parts; parseInt and trim are modelled character by character.           *)
(***************************************************************************)
EXTENDS Integers, Sequences, FiniteSets, TLC

(***************************************************************************)
(* Bounds of the model.                                                    *)
(***************************************************************************)
MaxTarget == 10
MaxMark == 5
MaxAllowedLen == 2
BankSize == 3
MaxCount == 2
MaxTypes == 3
GenMaxTarget == 4
AiMaxCount == 7
MaxSaves == 2
MaxInFlight == 2

\* the mark values of the bank questions and of the distribution pieces,
\* and the numbers of pieces of a distribution
BankMarks == {1, 2}
GroupCounts == {1, 2}

VARIABLES
  settings,        \* generator settings: generationMode, markDistribution,
                   \* totalMarks, allowedMarks, aiChapter, aiQuestionType
  questions,       \* the question bank (prop of PaperGenerator)
  selectedClass,
  avoidPrevious,
  useAI,           \* argument of the running handleGenerate
  isGenerating,
  generatedPaper,  \* None or Some(paper)
  toasts,          \* messages shown by the running invocation, in order
  pc,              \* position of the running invocation
  distribution,    \* None (null) or Some(sequence of <<count, marks>>)
  uniqueMarks,     \* findDistribution locals
  dp,
  currentTotal,
  resultMarks,
  bankResult,      \* None or Some(value returned by generateFromBank)
  existingQuestionPool,  \* locals of the AI branch of handleGenerate
  finalQuestions,
  groupIndex,      \* position of the loop over the distribution
  requestsToMake,
  requestIndex,    \* position of the loop over requestsToMake
  requestLog,      \* the calls of generateQuestionsAI made so far
  aiError,         \* None or Some(error caught from the AI branch)
  settledCount,    \* the calls of generateQuestionsAI that have settled
  randomDraws,     \* Math.floor(Math.random() * possibleMoves.length), in order
  papers,          \* the archive (state of App), newest first
  inFlight,        \* calls of handleSavePaper / handleDeletePaper awaiting the backend
  insertedCount    \* the papers the backend has inserted so far

vars == <<settings, questions, selectedClass, avoidPrevious, useAI,
          isGenerating, generatedPaper, toasts, pc, distribution,
          uniqueMarks, dp, currentTotal, resultMarks, bankResult,
          existingQuestionPool, finalQuestions, groupIndex, requestsToMake,
          requestIndex, requestLog, aiError, settledCount, randomDraws,
          papers, inFlight, insertedCount>>

archiveVars == <<papers, inFlight, insertedCount>>

aiVars == <<existingQuestionPool, finalQuestions, groupIndex, requestsToMake,
            requestIndex, requestLog, aiError, settledCount>>

None == <<>>
Some(x) == <<x>>

(***************************************************************************)
(* Text: parseInt(s, 10) and String.prototype.trim.                        *)
(***************************************************************************)
DigitChars == <<"0", "1", "2", "3", "4", "5", "6", "7", "8", "9">>

IsDigit(c) == \E i \in 1..10 : DigitChars[i] = c

DigitVal(c) == (CHOOSE i \in 1..10 : DigitChars[i] = c) - 1

RECURSIVE TrimStart(_)
TrimStart(s) ==
  IF s # <<>> /\ Head(s) = " " THEN TrimStart(Tail(s)) ELSE s

RECURSIVE TrimEnd(_)
TrimEnd(s) ==
  IF s # <<>> /\ s[Len(s)] = " " THEN TrimEnd(SubSeq(s, 1, Len(s) - 1)) ELSE s

Trim(s) == TrimEnd(TrimStart(s))

\* the longest prefix of s made of digits
RECURSIVE LeadingDigits(_)
LeadingDigits(s) ==
  IF s # <<>> /\ IsDigit(Head(s))
    THEN <<Head(s)>> \o LeadingDigits(Tail(s))
    ELSE <<>>

RECURSIVE DigitsValue(_)
DigitsValue(ds) ==
  IF ds = <<>> THEN 0
  ELSE 10 * DigitsValue(SubSeq(ds, 1, Len(ds) - 1)) + DigitVal(ds[Len(ds)])

NaN == [isNaN |-> TRUE, value |-> 0]
Num(n) == [isNaN |-> FALSE, value |-> n]

\* parseInt(s, 10): leading white space is skipped, one optional sign is
\* read, then decimal digits up to the first other character; NaN when
\* there is no digit.
ParseInt(s) ==
  LET t == TrimStart(s)
      neg == t # <<>> /\ Head(t) = "-"
      signed == t # <<>> /\ Head(t) \in {"-", "+"}
      body == IF signed THEN Tail(t) ELSE t
      ds == LeadingDigits(body)
  IN IF ds = <<>> THEN NaN
     ELSE Num(IF neg THEN 0 - DigitsValue(ds) ELSE DigitsValue(ds))

\* the decimal text of a natural number, as the user types it
RECURSIVE Decimal(_)
Decimal(n) ==
  IF n < 10 THEN <<DigitChars[n + 1]>>
  ELSE Decimal(n \div 10) \o <<DigitChars[(n % 10) + 1]>>

(***************************************************************************)
(* Sequence helpers standing for Array.filter, new Set and Map.            *)
(***************************************************************************)
\* the elements of s at the indices in keep, in order (seq and kept hold
\* the values of the two arguments, evaluated once)
SelectSeqIdx(s, keep) ==
  CHOOSE filtered \in
    {[i \in 1..Cardinality(kept) |->
        seq[CHOOSE k \in kept : Cardinality({j \in kept : j <= k}) = i]] :
       seq \in {s}, kept \in {keep \cap DOMAIN s}} : TRUE

Range(s) == {s[i] : i \in DOMAIN s}

\* [...new Set(s)]: the distinct elements of s in order of first occurrence
Unique(s) ==
  SelectSeqIdx(s, {i \in DOMAIN s : \A j \in 1..(i - 1) : s[j] # s[i]})

(***************************************************************************)
(* findDistribution (total-marks mode).                                    *)
(***************************************************************************)
\* target = parseInt(settings.totalMarks, 10)
Target(st) == ParseInt(st.totalMarks)

\* settings.allowedMarks.split(',').map(s => parseInt(s.trim(), 10))
\*   .filter(m => !isNaN(m) && m > 0), made unique
ParsedAllowed(st) ==
  [i \in DOMAIN st.allowedMarks |-> ParseInt(Trim(st.allowedMarks[i]))]

UniqueMarksOf(st) ==
  LET parsed == ParsedAllowed(st)
      kept == SelectSeqIdx(parsed,
                {i \in DOMAIN parsed : ~parsed[i].isNaN /\ parsed[i].value > 0})
  IN Unique([i \in DOMAIN kept |-> kept[i].value])

\* faulty variant: the uniqueMarks.length === 0 test is left out
MalformedSolverInputNoEmpty(st) ==
  \/ Target(st).isNaN
  \/ Target(st).value <= 0

\* if (isNaN(target) || target <= 0 || uniqueMarks.length === 0)
MalformedSolverInput(st) ==
  \/ Target(st).isNaN
  \/ Target(st).value <= 0
  \/ UniqueMarksOf(st) = <<>>

\* faulty variant: dp[i - mark] is not looked up
DpEntryNoLookup(table, i, marks) ==
  \E k \in DOMAIN marks : i >= marks[k]

\* faulty variant: i > mark in place of i >= mark
DpEntryStrict(table, i, marks) ==
  \E k \in DOMAIN marks : i > marks[k] /\ table[i - marks[k]]

\* the inner loop of the table construction: dp[i] becomes true at the
\* first mark with i >= mark && dp[i - mark]
DpEntry(table, i, marks) ==
  \E k \in DOMAIN marks : i >= marks[k] /\ table[i - marks[k]]

\* dp after the outer loop has run for 1..i
RECURSIVE DpUpTo(_, _)
DpUpTo(i, marks) ==
  IF i = 0 THEN [s \in {0} |-> TRUE]
  ELSE LET prev == DpUpTo(i - 1, marks)
       IN [s \in 0..i |-> IF s < i THEN prev[s] ELSE DpEntry(prev, i, marks)]

DpTable(target, marks) == DpUpTo(target, marks)

\* faulty variant: only the first mark that keeps the rest reachable is kept
PossibleMovesFirstOnly(total, marks, table) ==
  LET feasible == {k \in DOMAIN marks :
                     total >= marks[k] /\ table[total - marks[k]]}
  IN SelectSeqIdx(marks, {k \in feasible : \A j \in feasible : k <= j})

\* uniqueMarks.filter(mark => currentTotal >= mark && dp[currentTotal - mark])
PossibleMoves(total, marks, table) ==
  SelectSeqIdx(marks,
    {k \in DOMAIN marks : total >= marks[k] /\ table[total - marks[k]]})

\* faulty variant: one entry per chosen mark instead of one per distinct mark
DistributionOfPerMove(rm) ==
  [k \in DOMAIN rm |->
     <<Cardinality({i \in DOMAIN rm : rm[i] = rm[k]}), rm[k]>>]

\* distributionMap, then Array.from(entries).map(([mark, count]) => [count, mark])
DistributionOf(rm) ==
  LET keys == Unique(rm)
  IN [k \in DOMAIN keys |->
        <<Cardinality({i \in DOMAIN rm : rm[i] = keys[k]}), keys[k]>>]

\* showToast(message, type); detail holds the variable part of a message
Toast(message, type) == [message |-> message, type |-> type, detail |-> <<>>]

\* findDistribution up to the while loop, from the toasts shown so far
FindDistributionBegin(shown) ==
  IF MalformedSolverInput(settings)
    THEN /\ toasts' = Append(shown, Toast("Invalid total marks or allowed marks.", "error"))
         /\ distribution' = None
         /\ pc' = "returned"
         /\ uniqueMarks' = UniqueMarksOf(settings)
         /\ dp' = <<>>
         /\ currentTotal' = 0
         /\ resultMarks' = <<>>
         /\ randomDraws' = <<>>
    ELSE LET target == Target(settings).value
             marks == UniqueMarksOf(settings)
             table == DpTable(target, marks)
         IN /\ toasts' = shown
            /\ uniqueMarks' = marks
            /\ dp' = table
            /\ resultMarks' = <<>>
            /\ randomDraws' = <<>>
            /\ distribution' = None
            /\ IF ~table[target]
                 THEN /\ pc' = "returned"
                      /\ currentTotal' = 0
                 ELSE /\ pc' = "recon"
                      /\ currentTotal' = target

\* faulty variant: the chosen mark is not subtracted from currentTotal
ReconStepNoProgress ==
  /\ pc = "recon"
  /\ LET moves == PossibleMoves(currentTotal, uniqueMarks, dp)
     IN IF currentTotal > 0
          THEN IF moves = <<>>
                 THEN /\ distribution' = None
                      /\ pc' = "returned"
                      /\ UNCHANGED <<currentTotal, resultMarks, randomDraws>>
                 ELSE \E r \in DOMAIN moves :
                        /\ resultMarks' = Append(resultMarks, moves[r])
                        /\ randomDraws' = Append(randomDraws, r - 1)
                        /\ UNCHANGED <<currentTotal, distribution, pc>>
          ELSE /\ distribution' = Some(DistributionOf(resultMarks))
               /\ pc' = "returned"
               /\ UNCHANGED <<currentTotal, resultMarks, randomDraws>>
  /\ UNCHANGED <<settings, questions, selectedClass, archiveVars, avoidPrevious, useAI,
                 isGenerating, generatedPaper, toasts, uniqueMarks, dp,
                 bankResult, aiVars>>

\* faulty variant: the entries of distributionMap come out in any order
ReconStepAnyOrder ==
  /\ pc = "recon"
  /\ LET moves == PossibleMoves(currentTotal, uniqueMarks, dp)
     IN IF currentTotal > 0
          THEN IF moves = <<>>
                 THEN /\ distribution' = None
                      /\ pc' = "returned"
                      /\ UNCHANGED <<currentTotal, resultMarks, randomDraws>>
                 ELSE \E r \in DOMAIN moves :
                        /\ resultMarks' = Append(resultMarks, moves[r])
                        /\ randomDraws' = Append(randomDraws, r - 1)
                        /\ currentTotal' = currentTotal - moves[r]
                        /\ UNCHANGED <<distribution, pc>>
          ELSE /\ LET d == DistributionOf(resultMarks)
                  IN \E p \in [DOMAIN d -> DOMAIN d] :
                       /\ \A a, b \in DOMAIN d : p[a] = p[b] => a = b
                       /\ distribution' = Some([k \in DOMAIN d |-> d[p[k]]])
               /\ pc' = "returned"
               /\ UNCHANGED <<currentTotal, resultMarks, randomDraws>>
  /\ UNCHANGED <<settings, questions, selectedClass, archiveVars, avoidPrevious, useAI,
                 isGenerating, generatedPaper, toasts, uniqueMarks, dp,
                 bankResult, aiVars>>

\* one evaluation of the while condition and, when it holds, of the body
ReconStep ==
  /\ pc = "recon"
  /\ LET moves == PossibleMoves(currentTotal, uniqueMarks, dp)
     IN IF currentTotal > 0
          THEN IF moves = <<>>
                 THEN /\ distribution' = None
                      /\ pc' = "returned"
                      /\ UNCHANGED <<currentTotal, resultMarks, randomDraws>>
                 ELSE \E r \in DOMAIN moves :
                        /\ resultMarks' = Append(resultMarks, moves[r])
                        /\ randomDraws' = Append(randomDraws, r - 1)
                        /\ currentTotal' = currentTotal - moves[r]
                        /\ UNCHANGED <<distribution, pc>>
          ELSE /\ distribution' = Some(DistributionOf(resultMarks))
               /\ pc' = "returned"
               /\ UNCHANGED <<currentTotal, resultMarks, randomDraws>>
  /\ UNCHANGED <<settings, questions, selectedClass, archiveVars, avoidPrevious, useAI,
                 isGenerating, generatedPaper, toasts, uniqueMarks, dp,
                 bankResult, aiVars>>

\* result of the while loop when Math.floor(Math.random() * length) takes
\* the values of draws, one per iteration
RECURSIVE MarksDrawn(_, _, _, _)
MarksDrawn(total, marks, table, draws) ==
  IF total <= 0 \/ draws = <<>> THEN <<>>
  ELSE LET moves == PossibleMoves(total, marks, table)
       IN IF moves = <<>> THEN <<>>
          ELSE LET mark == moves[Head(draws) + 1]
               IN <<mark>> \o MarksDrawn(total - mark, marks, table, Tail(draws))

\* the value findDistribution returns for settings st and those draws
FindDistributionWith(st, draws) ==
  IF MalformedSolverInput(st) THEN None
  ELSE LET target == Target(st).value
           marks == UniqueMarksOf(st)
           table == DpTable(target, marks)
       IN IF ~table[target] THEN None
          ELSE Some(DistributionOf(MarksDrawn(target, marks, table, draws)))

\* the AI branch has not run
AiIdle ==
  /\ existingQuestionPool = <<>>
  /\ finalQuestions = <<>>
  /\ groupIndex = 0
  /\ requestsToMake = <<>>
  /\ requestIndex = 0
  /\ requestLog = <<>>
  /\ aiError = None
  /\ settledCount = 0

(***************************************************************************)
(* SolveSpec: findDistribution on its own, over bounded inputs.            *)
(***************************************************************************)
JunkTokens == {<<"a">>, <<"-", "2">>, <<" ", "2", " ">>}

TotalMarksTexts == {Decimal(n) : n \in 0..MaxTarget} \cup {<<"a">>, <<"-", "1">>}

AllowedMarkTexts == {Decimal(n) : n \in 0..MaxMark} \cup JunkTokens

SeqsUpTo(S, n) == UNION {[1..k -> S] : k \in 0..n}

DefaultSettings ==
  [generationMode |-> "totalMarks",
   markDistribution |-> <<>>,
   totalMarks |-> Decimal(1),
   allowedMarks |-> <<Decimal(1)>>,
   aiChapter |-> <<>>,
   aiQuestionType |-> <<>>]

SolveInit ==
  /\ \E tm \in TotalMarksTexts, am \in SeqsUpTo(AllowedMarkTexts, MaxAllowedLen) :
       settings = [DefaultSettings EXCEPT !.totalMarks = tm, !.allowedMarks = am]
  /\ questions = <<>>
  /\ selectedClass = 10
  /\ papers = <<>>
  /\ inFlight = {}
  /\ insertedCount = 0
  /\ avoidPrevious = TRUE
  /\ useAI = FALSE
  /\ isGenerating = FALSE
  /\ generatedPaper = None
  /\ toasts = <<>>
  /\ pc = "call"
  /\ distribution = None
  /\ uniqueMarks = <<>>
  /\ dp = <<>>
  /\ currentTotal = 0
  /\ resultMarks = <<>>
  /\ randomDraws = <<>>
  /\ bankResult = None
  /\ AiIdle

SolveCall ==
  /\ pc = "call"
  /\ FindDistributionBegin(toasts)
  /\ UNCHANGED <<settings, questions, selectedClass, archiveVars, avoidPrevious, useAI,
                 isGenerating, generatedPaper, bankResult, aiVars>>

SolveNext == SolveCall \/ ReconStep

SolveSpec == SolveInit /\ [][SolveNext]_vars

(***************************************************************************)
(* MarkSetSpec: findDistribution over every non-empty set of allowed marks *)
(* up to MaxMark, typed in ascending order.                                *)
(***************************************************************************)
MarkSets == (SUBSET (1..MaxMark)) \ {{}}

RECURSIVE Ascending(_)
Ascending(S) ==
  IF S = {} THEN <<>>
  ELSE LET least == CHOOSE x \in S : \A y \in S : x <= y
       IN <<least>> \o Ascending(S \ {least})

MarkSetTexts(S) == [k \in 1..Cardinality(S) |-> Decimal(Ascending(S)[k])]

MarkSetInit ==
  /\ \E t \in 1..MaxTarget, S \in MarkSets :
       settings = [DefaultSettings EXCEPT !.totalMarks = Decimal(t),
                                          !.allowedMarks = MarkSetTexts(S)]
  /\ questions = <<>>
  /\ selectedClass = 10
  /\ papers = <<>>
  /\ inFlight = {}
  /\ insertedCount = 0
  /\ avoidPrevious = TRUE
  /\ useAI = FALSE
  /\ isGenerating = FALSE
  /\ generatedPaper = None
  /\ toasts = <<>>
  /\ pc = "call"
  /\ distribution = None
  /\ uniqueMarks = <<>>
  /\ dp = <<>>
  /\ currentTotal = 0
  /\ resultMarks = <<>>
  /\ randomDraws = <<>>
  /\ bankResult = None
  /\ AiIdle

MarkSetSpec == MarkSetInit /\ [][SolveNext]_vars

\* the while loop is straight-line code: once entered it keeps iterating
\* while it has an iteration to make
ShortMarkSetInit ==
  /\ MarkSetInit
  /\ Len(settings.allowedMarks) <= MaxAllowedLen

MarkSetFairSpec ==
  ShortMarkSetInit /\ [][SolveNext]_vars /\ WF_vars(ReconStep)

(***************************************************************************)
(* generateFromBank.  A question is a record of the fields the generator   *)
(* reads: id, class, marks, usedIn (the ids of the papers it was used in)  *)
(* and source.                                                             *)
(***************************************************************************)
Min(a, b) == IF a < b THEN a ELSE b
Max(a, b) == IF a > b THEN a ELSE b

\* Array.filter with a predicate given as the set of elements to keep
FilterSeq(s, keepSet) == SelectSeqIdx(s, {i \in DOMAIN s : s[i] \in keepSet})

\* faulty variant: the usedIn filter is left out
SourcePoolIgnoringUse(qs, cls, avoid) ==
  FilterSeq(qs, {q \in Range(qs) : q.class = cls})

\* questions.filter(q => q.class === selectedClass), then, if avoidPrevious,
\* .filter(q => q.usedIn.length === 0)
SourcePool(qs, cls, avoid) ==
  LET ofClass == FilterSeq(qs, {q \in Range(qs) : q.class = cls})
  IN IF avoid
       THEN FilterSeq(ofClass, {q \in Range(ofClass) : Len(q.usedIn) = 0})
       ELSE ofClass

\* sourcePool.filter(q => q.marks === marks)
SuitableQuestions(pool, marks) ==
  FilterSeq(pool, {q \in Range(pool) : q.marks = marks})

RECURSIVE SumCountsFor(_, _)
SumCountsFor(dist, marks) ==
  IF dist = <<>> THEN 0
  ELSE (IF dist[1][2] = marks THEN dist[1][1] ELSE 0)
       + SumCountsFor(Tail(dist), marks)

\* faulty variant: a repeated mark value keeps the count of its last pair only
RequiredCountsLastWins(dist) ==
  LET keys == Unique([i \in DOMAIN dist |-> dist[i][2]])
  IN [k \in DOMAIN keys |->
        [marks |-> keys[k],
         required |-> dist[CHOOSE i \in DOMAIN dist :
                             /\ dist[i][2] = keys[k]
                             /\ \A j \in DOMAIN dist :
                                  dist[j][2] = keys[k] => j <= i][1]]]

\* requiredCounts: a Map from marks to the summed count, in insertion order
RequiredCounts(dist) ==
  LET keys == Unique([i \in DOMAIN dist |-> dist[i][2]])
  IN [k \in DOMAIN keys |->
        [marks |-> keys[k], required |-> SumCountsFor(dist, keys[k])]]

\* faulty variant: only the first shortage is kept
MissingMessagesFirstOnly(pool, dist) ==
  LET rc == RequiredCounts(dist)
      short == {k \in DOMAIN rc :
                  Len(SuitableQuestions(pool, rc[k].marks)) < rc[k].required}
  IN IF short = {} THEN <<>>
     ELSE LET k == CHOOSE x \in short : \A y \in short : x <= y
          IN <<[marks |-> rc[k].marks, required |-> rc[k].required,
                found |-> Len(SuitableQuestions(pool, rc[k].marks))]>>

\* missingMessages: one entry "need <required> for <marks> marks (found
\* <found>)" per entry of requiredCounts with too few suitable questions
MissingMessages(pool, dist) ==
  LET rc == RequiredCounts(dist)
      msgs == [k \in DOMAIN rc |->
                 [marks |-> rc[k].marks, required |-> rc[k].required,
                  found |-> Len(SuitableQuestions(pool, rc[k].marks))]]
  IN SelectSeqIdx(msgs, {k \in DOMAIN msgs : msgs[k].found < msgs[k].required})

\* the length of a.slice(0, count) for an array of n elements
SliceLen(n, count) ==
  IF count >= 0 THEN Min(count, n) ELSE Max(n + count, 0)

\* faulty variant: every group takes all the suitable questions
SelectionsAll(suitable, count) ==
  {sel \in [1..Len(suitable) -> Range(suitable)] :
     \A i, j \in 1..Len(suitable) : i # j => sel[i] # sel[j]}

\* suitableQuestions.sort(() => 0.5 - Math.random()).slice(0, count): the
\* first elements of some rearrangement of the suitable questions
Selections(suitable, count) ==
  LET k == SliceLen(Len(suitable), count)
  IN {sel \in [1..k -> Range(suitable)] :
        \A i, j \in 1..k : i # j => sel[i] # sel[j]}

\* faulty variant: the selected questions stay in the working pool
RemoveSelectedNoop(pool, selected) == pool

\* sourcePool.filter(q => !selected.some(s => s.id === q.id))
RemoveSelected(pool, selected) ==
  FilterSeq(pool, {q \in Range(pool) :
                     ~\E i \in DOMAIN selected : selected[i].id = q.id})

\* the values finalQuestions can have after the second loop
RECURSIVE FinalQuestionsOf(_, _)
FinalQuestionsOf(pool, dist) ==
  IF dist = <<>> THEN {<<>>}
  ELSE UNION {
         {selected \o rest :
            rest \in FinalQuestionsOf(RemoveSelected(pool, selected), Tail(dist))} :
         selected \in Selections(SuitableQuestions(pool, dist[1][2]), dist[1][1])}

\* the values generateFromBank(distribution) can return
GenerateFromBank(qs, cls, avoid, dist) ==
  LET sourcePool == SourcePool(qs, cls, avoid)
      missingMessages == MissingMessages(sourcePool, dist)
  IN IF Len(missingMessages) > 0
       THEN {[error |-> missingMessages]}
       ELSE {[questions |-> fq] : fq \in FinalQuestionsOf(sourcePool, dist)}

IsError(result) == "error" \in DOMAIN result

(***************************************************************************)
(* BankSpec: generateFromBank on its own, over bounded banks and           *)
(* distributions.                                                          *)
(***************************************************************************)
Classes == {9, 10}

UsedIns == {<<>>, <<[paperId |-> "p0"]>>}

\* banks of BankSize questions with the ids 1..BankSize
Banks ==
  {[i \in 1..BankSize |->
      [id |-> i, class |-> f[i][1], marks |-> f[i][2], usedIn |-> f[i][3],
       source |-> "Manual"]] :
     f \in [1..BankSize -> Classes \X BankMarks \X UsedIns]}

Pairs == {<<c, m>> : c \in (0 - 1)..MaxCount, m \in BankMarks}

BankInit ==
  /\ questions \in Banks
  /\ selectedClass = 10
  /\ papers = <<>>
  /\ inFlight = {}
  /\ insertedCount = 0
  /\ avoidPrevious \in BOOLEAN
  /\ distribution \in {Some(d) : d \in UNION {[1..k -> Pairs] : k \in {0} \cup GroupCounts}}
  /\ settings = DefaultSettings
  /\ useAI = FALSE
  /\ isGenerating = FALSE
  /\ generatedPaper = None
  /\ toasts = <<>>
  /\ pc = "call"
  /\ uniqueMarks = <<>>
  /\ dp = <<>>
  /\ currentTotal = 0
  /\ resultMarks = <<>>
  /\ randomDraws = <<>>
  /\ bankResult = None
  /\ AiIdle

BankCall ==
  /\ pc = "call"
  /\ \E r \in GenerateFromBank(questions, selectedClass, avoidPrevious,
                               distribution[1]) :
       bankResult' = Some(r)
  /\ pc' = "returned"
  /\ UNCHANGED <<settings, questions, selectedClass, archiveVars, avoidPrevious, useAI,
                 isGenerating, generatedPaper, toasts, distribution,
                 uniqueMarks, dp, currentTotal, resultMarks, randomDraws, aiVars>>

BankNext == BankCall

BankSpec == BankInit /\ [][BankNext]_vars

(***************************************************************************)
(* handleGenerate.                                                         *)
(***************************************************************************)
\* s.trim() on a piece of the mark distribution, given as its parts
TrimPiece(piece) ==
  [j \in DOMAIN piece |->
     LET a == IF j = 1 THEN TrimStart(piece[j]) ELSE piece[j]
     IN IF j = Len(piece) THEN TrimEnd(a) ELSE a]

\* settings.markDistribution.split(',')
\*   .map(s => s.trim().split('x').map(p => parseInt(p, 10)))
\*   .filter(parts => parts.length === 2 && !isNaN(parts[0]) && !isNaN(parts[1]))
ParseDistribution(md) ==
  LET parsed == [i \in DOMAIN md |->
                   [j \in DOMAIN md[i] |-> ParseInt(TrimPiece(md[i])[j])]]
      kept == SelectSeqIdx(parsed,
                {i \in DOMAIN parsed :
                   /\ Len(parsed[i]) = 2
                   /\ ~parsed[i][1].isNaN
                   /\ ~parsed[i][2].isNaN})
  IN [i \in DOMAIN kept |-> <<kept[i][1].value, kept[i][2].value>>]

\* settings.markDistribution.trim() === ''
IsBlank(md) == Len(md) = 1 /\ Len(md[1]) = 1 /\ Trim(md[1][1]) = <<>>

\* settings.aiChapter.split(',').map(c => c.trim()).filter(Boolean)
AiChapters(st) ==
  LET trimmed == [i \in DOMAIN st.aiChapter |-> Trim(st.aiChapter[i])]
  IN SelectSeqIdx(trimmed, {i \in DOMAIN trimmed : trimmed[i] # <<>>})

\* createPaper(questions, source), without the title, year and time stamps
createPaper(qs, source) ==
  [class |-> selectedClass, source |-> source, questions |-> qs]

\* questions.filter(q => q.class === selectedClass &&
\*   (avoidPrevious ? q.usedIn.length === 0 : true))
InitialExistingPool(qs, cls, avoid) ==
  FilterSeq(qs, {q \in Range(qs) :
                   q.class = cls /\ (IF avoid THEN Len(q.usedIn) = 0 ELSE TRUE)})

\* faulty variant: the remainder goes to the last types instead of the first
RequestsToMakeTail(count, types) ==
  LET selectedTypes == IF Len(types) > 0 THEN types ELSE <<"Short Answer">>
      numTypes == Len(selectedTypes)
      baseCount == count \div numTypes
      remainder == count % numTypes
      all == [i \in 1..numTypes |->
                [count |-> baseCount + (IF i > numTypes - remainder THEN 1 ELSE 0),
                 type |-> selectedTypes[i]]]
  IN IF numTypes <= 1
       THEN <<[count |-> count, type |-> selectedTypes[1]]>>
       ELSE SelectSeqIdx(all, {i \in DOMAIN all : all[i].count > 0})

\* faulty variant: the requests of a group are made in the reverse order of
\* the selected types
RequestsToMakeReversed(count, types) ==
  LET selectedTypes == IF Len(types) > 0 THEN types ELSE <<"Short Answer">>
      numTypes == Len(selectedTypes)
      baseCount == count \div numTypes
      remainder == count % numTypes
      all == [i \in 1..numTypes |->
                [count |-> baseCount + (IF i - 1 < remainder THEN 1 ELSE 0),
                 type |-> selectedTypes[i]]]
      kept == SelectSeqIdx(all, {i \in DOMAIN all : all[i].count > 0})
  IN IF numTypes <= 1
       THEN <<[count |-> count, type |-> selectedTypes[1]]>>
       ELSE [i \in DOMAIN kept |-> kept[Len(kept) + 1 - i]]

\* requestsToMake for one group of count > 0 questions
RequestsToMake(count, types) ==
  LET selectedTypes == IF Len(types) > 0 THEN types ELSE <<"Short Answer">>
      numTypes == Len(selectedTypes)
      baseCount == count \div numTypes
      remainder == count % numTypes
      all == [i \in 1..numTypes |->
                [count |-> baseCount + (IF i - 1 < remainder THEN 1 ELSE 0),
                 type |-> selectedTypes[i]]]
  IN IF numTypes <= 1
       THEN <<[count |-> count, type |-> selectedTypes[1]]>>
       ELSE SelectSeqIdx(all, {i \in DOMAIN all : all[i].count > 0})

\* the first group at or after g that is not skipped by
\* "if (count <= 0) continue", or 0 when the loop is over
RECURSIVE NextGroup(_, _)
NextGroup(dist, g) ==
  IF g > Len(dist) THEN 0
  ELSE IF dist[g][1] <= 0 THEN NextGroup(dist, g + 1)
  ELSE g

\* the errors generateQuestionsAI is rejected with: the structured error
\* field (status, code) or none, and the message, of which the model keeps
\* whether it contains "429", the JSON fragment embedded in it (None when
\* there is none) and what JSON.parse gives for the text from its first
\* '{' (None when that throws: no fragment, or text after the fragment)
NoStructured == [status |-> "", code |-> 0]

RejectionErrors ==
  {[error |-> [status |-> "RESOURCE_EXHAUSTED", code |-> 429],
    has429 |-> TRUE, fragment |-> None, json |-> None],
   [error |-> [status |-> "UNAVAILABLE", code |-> 429],
    has429 |-> FALSE, fragment |-> None, json |-> None],
   [error |-> NoStructured, has429 |-> TRUE,
    fragment |-> Some([status |-> "RESOURCE_EXHAUSTED", code |-> 429]),
    json |-> Some([status |-> "RESOURCE_EXHAUSTED", code |-> 429])],
   [error |-> NoStructured, has429 |-> TRUE,
    fragment |-> Some([status |-> "RESOURCE_EXHAUSTED", code |-> 429]),
    json |-> None],
   [error |-> NoStructured, has429 |-> TRUE, fragment |-> None, json |-> None],
   [error |-> NoStructured, has429 |-> TRUE,
    fragment |-> Some([status |-> "INTERNAL", code |-> 500]),
    json |-> Some([status |-> "INTERNAL", code |-> 500])],
   [error |-> NoStructured, has429 |-> FALSE,
    fragment |-> Some([status |-> "RESOURCE_EXHAUSTED", code |-> 8]),
    json |-> Some([status |-> "RESOURCE_EXHAUSTED", code |-> 8])],
   [error |-> NoStructured, has429 |-> FALSE, fragment |-> None, json |-> None]}

\* isQuotaError of the catch block
IsQuotaError(e) ==
  IF e.error.status = "RESOURCE_EXHAUSTED" \/ e.error.code = 429
    THEN TRUE
    ELSE IF e.has429
      THEN /\ e.json # None
           /\ \/ e.json[1].status = "RESOURCE_EXHAUSTED"
              \/ e.json[1].code = 429
      ELSE FALSE

\* faulty variant: an invocation that produces no paper leaves generatedPaper
\* as it was
FinishKeepPaper(paper, shown) ==
  /\ generatedPaper' = IF paper = None THEN generatedPaper ELSE paper
  /\ toasts' = shown
  /\ isGenerating' = FALSE
  /\ pc' = "idle"

\* faulty variant: isGenerating is not reset when the invocation ends
FinishStillGenerating(paper, shown) ==
  /\ generatedPaper' = paper
  /\ toasts' = shown
  /\ isGenerating' = TRUE
  /\ pc' = "idle"

\* the invocation ends: finally { setIsGenerating(false) }
Finish(paper, shown) ==
  /\ generatedPaper' = paper
  /\ toasts' = shown
  /\ isGenerating' = FALSE
  /\ pc' = "idle"

\* the call of generateQuestionsAI for request req of group g
LogEntry(dist, g, req, delayed, pool, fq) ==
  [group |-> g, marks |-> dist[g][2], count |-> req.count, type |-> req.type,
   delayed |-> delayed, existing |-> pool, produced |-> Len(fq)]

\* faulty variant: the requests of a group are started without awaiting the
\* one before
ContinueAIAllAtOnce(dist, g, r, fq, pool, log, shown) ==
  /\ finalQuestions' = fq
  /\ existingQuestionPool' = pool
  /\ aiError' = None
  /\ IF g = 0
       THEN /\ Finish(Some(createPaper(fq, "Generated")), shown)
            /\ groupIndex' = 0
            /\ requestIndex' = 0
            /\ requestsToMake' = <<>>
            /\ requestLog' = log
       ELSE LET reqs == RequestsToMake(dist[g][1], settings.aiQuestionType)
            IN /\ groupIndex' = g
               /\ requestIndex' = r
               /\ requestsToMake' = reqs
               /\ toasts' = shown
               /\ isGenerating' = TRUE
               /\ generatedPaper' = None
               /\ pc' = "awaitAI"
               /\ requestLog' =
                    log \o [i \in 1..(Len(reqs) - r + 1) |->
                              LogEntry(dist, g, reqs[r + i - 1], FALSE, pool, fq)]

\* faulty variant: the delay is waited before every request but the first,
\* whatever the earlier requests produced
ContinueAIDelayAfterFirst(dist, g, r, fq, pool, log, shown) ==
  /\ finalQuestions' = fq
  /\ existingQuestionPool' = pool
  /\ aiError' = None
  /\ IF g = 0
       THEN /\ Finish(Some(createPaper(fq, "Generated")), shown)
            /\ groupIndex' = 0
            /\ requestIndex' = 0
            /\ requestsToMake' = <<>>
            /\ requestLog' = log
       ELSE LET reqs == RequestsToMake(dist[g][1], settings.aiQuestionType)
            IN /\ groupIndex' = g
               /\ requestIndex' = r
               /\ requestsToMake' = reqs
               /\ toasts' = shown
               /\ isGenerating' = TRUE
               /\ generatedPaper' = None
               /\ IF Len(log) > 0
                    THEN /\ pc' = "delay"
                         /\ requestLog' = log
                    ELSE /\ pc' = "awaitAI"
                         /\ requestLog' =
                              Append(log, LogEntry(dist, g, reqs[r], FALSE, pool, fq))

\* the loops of the AI branch from request r of group g (g = 0: both loops
\* are over) up to the next await or to the end of the try block
ContinueAI(dist, g, r, fq, pool, log, shown) ==
  /\ finalQuestions' = fq
  /\ existingQuestionPool' = pool
  /\ aiError' = None
  /\ IF g = 0
       THEN /\ Finish(Some(createPaper(fq, "Generated")), shown)
            /\ groupIndex' = 0
            /\ requestIndex' = 0
            /\ requestsToMake' = <<>>
            /\ requestLog' = log
       ELSE LET reqs == RequestsToMake(dist[g][1], settings.aiQuestionType)
            IN /\ groupIndex' = g
               /\ requestIndex' = r
               /\ requestsToMake' = reqs
               /\ toasts' = shown
               /\ isGenerating' = TRUE
               /\ generatedPaper' = None
               /\ IF Len(fq) > 0
                    THEN /\ pc' = "delay"
                         /\ requestLog' = log
                    ELSE /\ pc' = "awaitAI"
                         /\ requestLog' =
                              Append(log, LogEntry(dist, g, reqs[r], FALSE, pool, fq))

\* faulty variant: the deficiency found by the fallback is not reported
BankErrorToastNoDetail(result) ==
  [message |-> "Not enough questions in bank", type |-> "error",
   detail |-> <<>>]

\* the message of a failed generateFromBank
BankErrorToast(result) ==
  [message |-> "Not enough questions in bank", type |-> "error",
   detail |-> result.error]

\* faulty variant: the AI branch does not test for an empty chapter list
BranchNoChapterCheck(ai, dist, shown) ==
  IF ai
    THEN /\ bankResult' = None
         /\ ContinueAI(dist, NextGroup(dist, 1), 1, <<>>,
              InitialExistingPool(questions, selectedClass, avoidPrevious),
              <<>>, shown)
         /\ settledCount' = 0
    ELSE /\ \E result \in GenerateFromBank(questions, selectedClass,
                                          avoidPrevious, dist) :
              /\ bankResult' = Some(result)
              /\ IF IsError(result)
                   THEN Finish(None, Append(shown, BankErrorToast(result)))
                   ELSE Finish(Some(createPaper(result.questions, "Manual")), shown)
         /\ existingQuestionPool' = <<>>
         /\ finalQuestions' = <<>>
         /\ groupIndex' = 0
         /\ requestsToMake' = <<>>
         /\ requestIndex' = 0
         /\ requestLog' = <<>>
         /\ aiError' = None
         /\ settledCount' = 0

\* handleGenerate from "if (useAI)" on, up to its first await or to its end
Branch(ai, dist, shown) ==
  IF ai
    THEN /\ bankResult' = None
         /\ IF AiChapters(settings) = <<>>
              THEN /\ Finish(None, Append(shown,
                       Toast("Please provide at least one chapter for AI generation.",
                             "error")))
                   /\ existingQuestionPool' = <<>>
                   /\ finalQuestions' = <<>>
                   /\ groupIndex' = 0
                   /\ requestsToMake' = <<>>
                   /\ requestIndex' = 0
                   /\ requestLog' = <<>>
                   /\ aiError' = None
                   /\ settledCount' = 0
              ELSE /\ ContinueAI(dist, NextGroup(dist, 1), 1, <<>>,
                        InitialExistingPool(questions, selectedClass, avoidPrevious),
                        <<>>, shown)
                   /\ settledCount' = 0
    ELSE /\ \E result \in GenerateFromBank(questions, selectedClass,
                                          avoidPrevious, dist) :
              /\ bankResult' = Some(result)
              /\ IF IsError(result)
                   THEN Finish(None, Append(shown, BankErrorToast(result)))
                   ELSE Finish(Some(createPaper(result.questions, "Manual")), shown)
         /\ existingQuestionPool' = <<>>
         /\ finalQuestions' = <<>>
         /\ groupIndex' = 0
         /\ requestsToMake' = <<>>
         /\ requestIndex' = 0
         /\ requestLog' = <<>>
         /\ aiError' = None
         /\ settledCount' = 0

\* a click on one of the two generate buttons (disabled while isGenerating)
HandleGenerate(ai) ==
  /\ pc = "idle"
  /\ ~isGenerating
  /\ useAI' = ai
  /\ IF settings.generationMode = "distribution"
       THEN LET dist == ParseDistribution(settings.markDistribution)
            IN /\ distribution' = Some(dist)
               /\ uniqueMarks' = <<>>
               /\ dp' = <<>>
               /\ currentTotal' = 0
               /\ resultMarks' = <<>>
               /\ randomDraws' = <<>>
               /\ IF Len(dist) = 0 /\ ~IsBlank(settings.markDistribution)
                    THEN /\ Finish(None,
                              <<Toast("Invalid mark distribution format.", "error")>>)
                         /\ bankResult' = None
                         /\ existingQuestionPool' = <<>>
                         /\ finalQuestions' = <<>>
                         /\ groupIndex' = 0
                         /\ requestsToMake' = <<>>
                         /\ requestIndex' = 0
                         /\ requestLog' = <<>>
                         /\ aiError' = None
                         /\ settledCount' = 0
                    ELSE Branch(ai, dist, <<>>)
       ELSE /\ FindDistributionBegin(<<>>)
            /\ isGenerating' = TRUE
            /\ generatedPaper' = None
            /\ bankResult' = None
            /\ existingQuestionPool' = <<>>
            /\ finalQuestions' = <<>>
            /\ groupIndex' = 0
            /\ requestsToMake' = <<>>
            /\ requestIndex' = 0
            /\ requestLog' = <<>>
            /\ aiError' = None
            /\ settledCount' = 0
  /\ UNCHANGED <<settings, questions, selectedClass, archiveVars, avoidPrevious>>

\* faulty variant: the return after the failure toast is missing and the branch
\* runs on an empty distribution
AfterFindDistributionNoReturn ==
  /\ pc = "returned"
  /\ Branch(useAI, IF distribution = None THEN <<>> ELSE distribution[1],
            IF distribution = None
              THEN Append(toasts, Toast("distributionGenerationFailed", "error"))
              ELSE toasts)
  /\ UNCHANGED <<settings, questions, selectedClass, archiveVars, avoidPrevious, useAI,
                 distribution, uniqueMarks, dp, currentTotal, resultMarks, randomDraws>>

\* handleGenerate after findDistribution has returned
AfterFindDistribution ==
  /\ pc = "returned"
  /\ IF distribution = None
       THEN /\ Finish(None, Append(toasts, Toast("distributionGenerationFailed", "error")))
            /\ UNCHANGED <<bankResult, aiVars>>
       ELSE Branch(useAI, distribution[1], toasts)
  /\ UNCHANGED <<settings, questions, selectedClass, archiveVars, avoidPrevious, useAI,
                 distribution, uniqueMarks, dp, currentTotal, resultMarks, randomDraws>>

\* the 1500 ms timer before a request ends and the request is made
DelayElapses ==
  /\ pc = "delay"
  /\ pc' = "awaitAI"
  /\ requestLog' = Append(requestLog,
       LogEntry(distribution[1], groupIndex, requestsToMake[requestIndex],
                TRUE, existingQuestionPool, finalQuestions))
  /\ UNCHANGED <<settings, questions, selectedClass, archiveVars, avoidPrevious, useAI,
                 isGenerating, generatedPaper, toasts, distribution,
                 uniqueMarks, dp, currentTotal, resultMarks, randomDraws, bankResult,
                 existingQuestionPool, finalQuestions, groupIndex,
                 requestsToMake, requestIndex, aiError, settledCount>>

\* the lengths of the batches generateQuestionsAI resolves with: one
\* question for an image-based request, otherwise none or as many as asked
BatchSizes(req) ==
  IF req.type = "Image-based" THEN {1} ELSE {0, req.count}

\* faulty variant: every new question carries the mark value of the first
\* requirement group
NewQuestionsFirstGroupMarks(n, k, marks) ==
  [i \in 1..n |->
     [id |-> 0 - (k + i), class |-> selectedClass,
      marks |-> distribution[1][1][2],
      usedIn |-> <<>>, source |-> "Generated"]]

\* generatedBatch.map(...): the questions made from a batch of n answers
\* when k questions were made before; ids are fresh, modelled as -1, -2, ...
NewQuestions(n, k, marks) ==
  [i \in 1..n |->
     [id |-> 0 - (k + i), class |-> selectedClass, marks |-> marks,
      usedIn |-> <<>>, source |-> "Generated"]]

\* faulty variant: the new questions are not pushed to existingQuestionPool
AIResolvesPoolStale ==
  /\ pc = "awaitAI"
  /\ settledCount' = settledCount + 1
  /\ \E n \in BatchSizes(requestsToMake[requestIndex]) :
       LET dist == distribution[1]
           newQuestions ==
             NewQuestions(n, Len(finalQuestions), dist[groupIndex][2])
           more == requestIndex < Len(requestsToMake)
       IN ContinueAI(dist,
            IF more THEN groupIndex ELSE NextGroup(dist, groupIndex + 1),
            IF more THEN requestIndex + 1 ELSE 1,
            finalQuestions \o newQuestions,
            existingQuestionPool,
            requestLog, toasts)
  /\ UNCHANGED <<settings, questions, selectedClass, archiveVars, avoidPrevious, useAI,
                 distribution, uniqueMarks, dp, currentTotal, resultMarks, randomDraws,
                 bankResult>>

\* faulty variant: existingQuestionPool is the bank array itself and the
\* push of the new questions lands in the bank
AIResolvesIntoBank ==
  /\ pc = "awaitAI"
  /\ settledCount' = settledCount + 1
  /\ \E n \in BatchSizes(requestsToMake[requestIndex]) :
       LET dist == distribution[1]
           newQuestions ==
             NewQuestions(n, Len(finalQuestions), dist[groupIndex][2])
           more == requestIndex < Len(requestsToMake)
       IN /\ ContinueAI(dist,
               IF more THEN groupIndex ELSE NextGroup(dist, groupIndex + 1),
               IF more THEN requestIndex + 1 ELSE 1,
               finalQuestions \o newQuestions,
               existingQuestionPool \o newQuestions,
               requestLog, toasts)
          /\ questions' = questions \o newQuestions
  /\ UNCHANGED <<settings, selectedClass, archiveVars, avoidPrevious, useAI,
                 distribution, uniqueMarks, dp, currentTotal, resultMarks, randomDraws,
                 bankResult>>

\* generateQuestionsAI resolves with a batch
AIResolves ==
  /\ pc = "awaitAI"
  /\ settledCount' = settledCount + 1
  /\ \E n \in BatchSizes(requestsToMake[requestIndex]) :
       LET dist == distribution[1]
           newQuestions ==
             NewQuestions(n, Len(finalQuestions), dist[groupIndex][2])
           more == requestIndex < Len(requestsToMake)
       IN ContinueAI(dist,
            IF more THEN groupIndex ELSE NextGroup(dist, groupIndex + 1),
            IF more THEN requestIndex + 1 ELSE 1,
            finalQuestions \o newQuestions,
            existingQuestionPool \o newQuestions,
            requestLog, toasts)
  /\ UNCHANGED <<settings, questions, selectedClass, archiveVars, avoidPrevious, useAI,
                 distribution, uniqueMarks, dp, currentTotal, resultMarks, randomDraws,
                 bankResult>>

\* faulty variant: generateFromBank is run as a fallback for quota errors only
AIRejectsQuotaOnly ==
  /\ pc = "awaitAI"
  /\ settledCount' = settledCount + 1
  /\ \E e \in RejectionErrors :
       /\ aiError' = Some(e)
       /\ IF IsQuotaError(e)
            THEN LET shown == toasts \o <<Toast("apiQuotaError", "error"),
                                          Toast("fallbackToBank", "success")>>
                 IN \E fallbackResult \in GenerateFromBank(questions, selectedClass,
                                            avoidPrevious, distribution[1]) :
                      /\ bankResult' = Some(fallbackResult)
                      /\ IF IsError(fallbackResult)
                           THEN Finish(None, Append(shown, BankErrorToast(fallbackResult)))
                           ELSE Finish(Some(createPaper(fallbackResult.questions, "Manual")),
                                       Append(shown, Toast("fallbackSuccess", "success")))
            ELSE /\ bankResult' = None
                 /\ Finish(None, Append(toasts, Toast("apiError", "error")))
  /\ UNCHANGED <<settings, questions, selectedClass, archiveVars, avoidPrevious, useAI,
                 distribution, uniqueMarks, dp, currentTotal, resultMarks, randomDraws,
                 existingQuestionPool, finalQuestions, groupIndex,
                 requestsToMake, requestIndex, requestLog>>

\* faulty variant: the questions of the batches that resolved before the
\* failure are kept in the paper
AIRejectsKeepPartial ==
  /\ pc = "awaitAI"
  /\ settledCount' = settledCount + 1
  /\ \E e \in RejectionErrors :
       LET first == Toast(IF IsQuotaError(e) THEN "apiQuotaError" ELSE "apiError",
                          "error")
           shown == toasts \o <<first, Toast("fallbackToBank", "success")>>
       IN /\ aiError' = Some(e)
          /\ \E fallbackResult \in GenerateFromBank(questions, selectedClass,
                                     avoidPrevious, distribution[1]) :
               /\ bankResult' = Some(fallbackResult)
               /\ IF IsError(fallbackResult)
                    THEN Finish(None, Append(shown, BankErrorToast(fallbackResult)))
                    ELSE Finish(Some(createPaper(
                                  finalQuestions \o fallbackResult.questions, "Manual")),
                                Append(shown, Toast("fallbackSuccess", "success")))
  /\ UNCHANGED <<settings, questions, selectedClass, archiveVars, avoidPrevious, useAI,
                 distribution, uniqueMarks, dp, currentTotal, resultMarks, randomDraws,
                 existingQuestionPool, finalQuestions, groupIndex,
                 requestsToMake, requestIndex, requestLog>>

\* generateQuestionsAI rejects: the catch block of the AI branch
AIRejects ==
  /\ pc = "awaitAI"
  /\ settledCount' = settledCount + 1
  /\ \E e \in RejectionErrors :
       LET first == Toast(IF IsQuotaError(e) THEN "apiQuotaError" ELSE "apiError",
                          "error")
           shown == toasts \o <<first, Toast("fallbackToBank", "success")>>
       IN /\ aiError' = Some(e)
          /\ \E fallbackResult \in GenerateFromBank(questions, selectedClass,
                                     avoidPrevious, distribution[1]) :
               /\ bankResult' = Some(fallbackResult)
               /\ IF IsError(fallbackResult)
                    THEN Finish(None, Append(shown, BankErrorToast(fallbackResult)))
                    ELSE Finish(Some(createPaper(fallbackResult.questions, "Manual")),
                                Append(shown, Toast("fallbackSuccess", "success")))
  /\ UNCHANGED <<settings, questions, selectedClass, archiveVars, avoidPrevious, useAI,
                 distribution, uniqueMarks, dp, currentTotal, resultMarks, randomDraws,
                 existingQuestionPool, finalQuestions, groupIndex,
                 requestsToMake, requestIndex, requestLog>>

(***************************************************************************)
(* Spec: the paper generator with its two buttons.                         *)
(***************************************************************************)
\* the order in which the user ticked the question types
TypeOrder == <<"Multiple Choice", "Image-based", "Short Answer",
               "True/False", "Fill in the Blanks">>

TypeLists == {SubSeq(TypeOrder, 1, k) : k \in 0..MaxTypes}

CountTexts == {Decimal(n) : n \in 0..MaxCount} \cup {<<"-", "1">>}

MarkTexts == {Decimal(n) : n \in BankMarks}

\* pieces of the mark distribution: "<count>x<marks>" and malformed ones
Pieces ==
  {<<c, m>> : c \in CountTexts, m \in MarkTexts}
    \cup {<<<<>>>>, <<<<"2">>>>, <<<<"a">>, <<"1">>>>}

DistributionTexts == UNION {[1..k -> Pieces] : k \in GroupCounts}

ChapterTexts == {<<<<>>>>, <<<<"c">>, <<" ">>>>}

GenSettings ==
  {[generationMode |-> "distribution", markDistribution |-> md,
    totalMarks |-> Decimal(1), allowedMarks |-> <<Decimal(1)>>,
    aiChapter |-> ch, aiQuestionType |-> ty] :
     md \in DistributionTexts, ch \in ChapterTexts, ty \in TypeLists}
  \cup
  {[generationMode |-> "totalMarks", markDistribution |-> <<<<<<>>>>>>,
    totalMarks |-> tm, allowedMarks |-> am,
    aiChapter |-> ch, aiQuestionType |-> ty] :
     tm \in {Decimal(n) : n \in 0..GenMaxTarget},
     am \in UNION {[1..k -> MarkTexts \cup {<<"0">>}] : k \in {0} \cup GroupCounts},
     ch \in ChapterTexts, ty \in TypeLists}

\* a bank with a used question, a question of another class and two
\* unused questions of 1 mark and one of 2 marks in the selected class
GenBank ==
  <<[id |-> 1, class |-> 10, marks |-> 1, usedIn |-> <<>>, source |-> "Manual"],
    [id |-> 2, class |-> 10, marks |-> 1, usedIn |-> <<[paperId |-> "p0"]>>,
     source |-> "Manual"],
    [id |-> 3, class |-> 10, marks |-> 2, usedIn |-> <<>>, source |-> "Manual"],
    [id |-> 4, class |-> 9, marks |-> 2, usedIn |-> <<>>, source |-> "Manual"],
    [id |-> 5, class |-> 10, marks |-> 1, usedIn |-> <<>>, source |-> "Manual"]>>

Init ==
  /\ settings \in GenSettings
  /\ questions = GenBank
  /\ selectedClass = 10
  /\ papers = <<>>
  /\ inFlight = {}
  /\ insertedCount = 0
  /\ avoidPrevious \in BOOLEAN
  /\ useAI = FALSE
  /\ isGenerating = FALSE
  /\ generatedPaper = None
  /\ toasts = <<>>
  /\ pc = "idle"
  /\ distribution = None
  /\ uniqueMarks = <<>>
  /\ dp = <<>>
  /\ currentTotal = 0
  /\ resultMarks = <<>>
  /\ randomDraws = <<>>
  /\ bankResult = None
  /\ AiIdle

Next ==
  \/ \E ai \in BOOLEAN : HandleGenerate(ai)
  \/ ReconStep
  \/ AfterFindDistribution
  \/ DelayElapses
  \/ AIResolves
  \/ AIRejects

Spec == Init /\ [][Next]_vars

\* an invocation that has begun runs on: its synchronous code is executed,
\* the timer fires, and every call of generateQuestionsAI settles
OnePieceInit ==
  /\ Init
  /\ Len(settings.markDistribution) = 1
  /\ Len(settings.allowedMarks) <= 1

FairSpec ==
  /\ OnePieceInit
  /\ [][Next]_vars
  /\ WF_vars(ReconStep)
  /\ WF_vars(AfterFindDistribution)
  /\ WF_vars(DelayElapses)
  /\ WF_vars(AIResolves \/ AIRejects)

(***************************************************************************)
(* AiSpec: the AI button alone, on distributions with larger counts.       *)
(***************************************************************************)
AiPieces == {<<Decimal(c), Decimal(1)>> : c \in 0..AiMaxCount}

AiSettings ==
  {[generationMode |-> "distribution", markDistribution |-> md,
    totalMarks |-> Decimal(1), allowedMarks |-> <<Decimal(1)>>,
    aiChapter |-> <<<<"c">>>>, aiQuestionType |-> ty] :
     md \in UNION {[1..k -> AiPieces] : k \in GroupCounts}, ty \in TypeLists}

AiInit ==
  /\ settings \in AiSettings
  /\ questions = GenBank
  /\ selectedClass = 10
  /\ papers = <<>>
  /\ inFlight = {}
  /\ insertedCount = 0
  /\ avoidPrevious = TRUE
  /\ useAI = FALSE
  /\ isGenerating = FALSE
  /\ generatedPaper = None
  /\ toasts = <<>>
  /\ pc = "idle"
  /\ distribution = None
  /\ uniqueMarks = <<>>
  /\ dp = <<>>
  /\ currentTotal = 0
  /\ resultMarks = <<>>
  /\ randomDraws = <<>>
  /\ bankResult = None
  /\ AiIdle

AiNext ==
  \/ HandleGenerate(TRUE)
  \/ DelayElapses
  \/ AIResolves
  \/ AIRejects

AiSpec == AiInit /\ [][AiNext]_vars

(***************************************************************************)
(* handleSavePaper and handleDeletePaper (App).  Each call reads questions *)
(* and papers from the render that created the handler, awaits the         *)
(* backend, and then sets the state from what it read.                     *)
(***************************************************************************)
\* the ids the backend gives to the papers it inserts, in order
PaperIds == <<"p1", "p2", "p3", "p4">>

ArchiveBank ==
  <<[id |-> 1, class |-> 10, marks |-> 1, usedIn |-> <<>>, source |-> "Manual"],
    [id |-> 2, class |-> 10, marks |-> 1, usedIn |-> <<[paperId |-> "p0"]>>,
     source |-> "Manual"],
    [id |-> 3, class |-> 10, marks |-> 2, usedIn |-> <<>>, source |-> "Manual"]>>

\* a question made by the AI path: its id is in no bank
GeneratedQuestion ==
  [id |-> 0 - 1, class |-> 10, marks |-> 1, usedIn |-> <<>>, source |-> "Generated"]

\* the papers offered for saving: selections from the bank as it is now, and
\* a generated paper; the id is the client-generated one
PapersToSave ==
  {[id |-> "client", class |-> selectedClass, source |-> "Manual",
    questions |-> SelectSeqIdx(questions, keep)] :
       keep \in {{1}, {1, 2}, {2, 3}}}
  \cup {[id |-> "client", class |-> selectedClass, source |-> "Generated",
         questions |-> <<GeneratedQuestion>>]}

\* paper.questions.map(q => q.id)
QuestionIds(paper) == {paper.questions[i].id : i \in DOMAIN paper.questions}

\* handleSavePaper up to the await of the insert
HandleSavePaper(paper) ==
  /\ Cardinality(inFlight) < MaxInFlight
  /\ insertedCount + Cardinality({c \in inFlight : c.op = "save"}) < MaxSaves
  /\ inFlight' = inFlight \cup
                   {[op |-> "save", paper |-> paper, closure |-> questions]}
  /\ UNCHANGED <<settings, questions, selectedClass, avoidPrevious, useAI,
                 isGenerating, generatedPaper, toasts, pc, distribution,
                 uniqueMarks, dp, currentTotal, resultMarks, bankResult,
                 aiVars, randomDraws, papers, insertedCount>>

\* questions.map(...) of handleSavePaper, over the questions the call read
WithUsedIn(qs, ids, paperId) ==
  [i \in DOMAIN qs |->
     IF qs[i].id \in ids
       THEN [qs[i] EXCEPT !.usedIn = Append(@, [paperId |-> paperId])]
       ELSE qs[i]]

\* the insert succeeded: handleSavePaper after the await
InsertSucceeds ==
  \E call \in inFlight :
    /\ call.op = "save"
    /\ LET savedPaper == [call.paper EXCEPT !.id = PaperIds[insertedCount + 1]]
       IN /\ questions' = WithUsedIn(call.closure, QuestionIds(call.paper),
                                     savedPaper.id)
          /\ papers' = <<savedPaper>> \o papers
    /\ insertedCount' = insertedCount + 1
    /\ toasts' = <<Toast("paperGenerated", "success")>>
    /\ inFlight' = inFlight \ {call}
    /\ UNCHANGED <<settings, selectedClass, avoidPrevious, useAI,
                   isGenerating, generatedPaper, pc, distribution,
                   uniqueMarks, dp, currentTotal, resultMarks, bankResult,
                   aiVars, randomDraws>>

\* the insert reported an error (error || !data)
InsertFails ==
  \E call \in inFlight :
    /\ call.op = "save"
    /\ toasts' = <<Toast("Error saving paper.", "error")>>
    /\ inFlight' = inFlight \ {call}
    /\ UNCHANGED <<settings, questions, selectedClass, avoidPrevious, useAI,
                   isGenerating, generatedPaper, pc, distribution,
                   uniqueMarks, dp, currentTotal, resultMarks, bankResult,
                   aiVars, randomDraws, papers, insertedCount>>

\* handleDeletePaper up to the await of the delete: papers.find(p => p.id === id)
HandleDeletePaper(id) ==
  /\ Cardinality(inFlight) < MaxInFlight
  /\ \E i \in DOMAIN papers :
       /\ papers[i].id = id
       /\ \A j \in 1..(i - 1) : papers[j].id # id
       /\ inFlight' = inFlight \cup
                        {[op |-> "delete", paper |-> papers[i], closure |-> questions]}
  /\ UNCHANGED <<settings, questions, selectedClass, avoidPrevious, useAI,
                 isGenerating, generatedPaper, toasts, pc, distribution,
                 uniqueMarks, dp, currentTotal, resultMarks, bankResult,
                 aiVars, randomDraws, papers, insertedCount>>

\* questions.map(...) of handleDeletePaper, over the questions the call read
WithoutUsedIn(qs, ids, paperId) ==
  [i \in DOMAIN qs |->
     IF qs[i].id \in ids
       THEN [qs[i] EXCEPT !.usedIn =
               FilterSeq(@, {use \in Range(@) : use.paperId # paperId})]
       ELSE qs[i]]

\* the delete succeeded: handleDeletePaper after the await
DeleteSucceeds ==
  \E call \in inFlight :
    /\ call.op = "delete"
    /\ questions' = WithoutUsedIn(call.closure, QuestionIds(call.paper),
                                  call.paper.id)
    /\ papers' = FilterSeq(papers, {p \in Range(papers) : p.id # call.paper.id})
    /\ toasts' = <<Toast("paperDeleted", "error")>>
    /\ inFlight' = inFlight \ {call}
    /\ UNCHANGED <<settings, selectedClass, avoidPrevious, useAI,
                   isGenerating, generatedPaper, pc, distribution,
                   uniqueMarks, dp, currentTotal, resultMarks, bankResult,
                   aiVars, randomDraws, insertedCount>>

\* the delete reported an error
DeleteFails ==
  \E call \in inFlight :
    /\ call.op = "delete"
    /\ toasts' = <<Toast("Error deleting paper.", "error")>>
    /\ inFlight' = inFlight \ {call}
    /\ UNCHANGED <<settings, questions, selectedClass, avoidPrevious, useAI,
                   isGenerating, generatedPaper, pc, distribution,
                   uniqueMarks, dp, currentTotal, resultMarks, bankResult,
                   aiVars, randomDraws, papers, insertedCount>>

ArchiveInit ==
  /\ settings = DefaultSettings
  /\ questions = ArchiveBank
  /\ selectedClass = 10
  /\ papers = <<>>
  /\ inFlight = {}
  /\ insertedCount = 0
  /\ avoidPrevious = TRUE
  /\ useAI = FALSE
  /\ isGenerating = FALSE
  /\ generatedPaper = None
  /\ toasts = <<>>
  /\ pc = "idle"
  /\ distribution = None
  /\ uniqueMarks = <<>>
  /\ dp = <<>>
  /\ currentTotal = 0
  /\ resultMarks = <<>>
  /\ bankResult = None
  /\ existingQuestionPool = <<>>
  /\ finalQuestions = <<>>
  /\ groupIndex = 0
  /\ requestsToMake = <<>>
  /\ requestIndex = 0
  /\ requestLog = <<>>
  /\ aiError = None
  /\ settledCount = 0
  /\ randomDraws = <<>>

ArchiveNext ==
  \/ \E paper \in PapersToSave : HandleSavePaper(paper)
  \/ InsertSucceeds
  \/ InsertFails
  \/ \E n \in 1..insertedCount : HandleDeletePaper(PaperIds[n])
  \/ DeleteSucceeds
  \/ DeleteFails

ArchiveSpec == ArchiveInit /\ [][ArchiveNext]_vars

(***************************************************************************)
(* Properties of findDistribution.                                         *)
(***************************************************************************)
RECURSIVE SumCountTimesMarks(_)
SumCountTimesMarks(dist) ==
  IF dist = <<>> THEN 0
  ELSE dist[1][1] * dist[1][2] + SumCountTimesMarks(Tail(dist))

\* the positive numbers among the allowed-marks pieces
PositiveAllowed(st) ==
  {ParseInt(Trim(st.allowedMarks[i])).value : i \in
     {j \in DOMAIN st.allowedMarks :
        LET v == ParseInt(Trim(st.allowedMarks[j])) IN ~v.isNaN /\ v.value > 0}}

\* the numbers <= 0 among the allowed-marks pieces
NonPositiveAllowed(st) ==
  {ParseInt(Trim(st.allowedMarks[i])).value : i \in
     {j \in DOMAIN st.allowedMarks :
        LET v == ParseInt(Trim(st.allowedMarks[j])) IN ~v.isNaN /\ v.value <= 0}}

ValidTarget(st) == ~ParseInt(st.totalMarks).isNaN /\ ParseInt(st.totalMarks).value > 0

RECURSIVE SumOfMultiset(_, _)
SumOfMultiset(c, S) ==
  IF S = {} THEN 0
  ELSE LET m == CHOOSE x \in S : TRUE
       IN c[m] * m + SumOfMultiset(c, S \ {m})

\* some multiset of the marks in S sums to n (no use of the dp table)
SomeMultisetSums(n, S) ==
  \E c \in [S -> 0..n] :
     /\ \A m \in S : c[m] * m <= n
     /\ SumOfMultiset(c, S) = n

\* C1: whenever findDistribution returns a sequence for a target > 0 and a
\* non-empty set of positive allowed marks, the sum of count * markValue is
\* the target and every markValue is an allowed mark.
C1_SolverSoundness ==
  (pc = "returned" /\ distribution # None) =>
     /\ ValidTarget(settings)
     /\ SumCountTimesMarks(distribution[1]) = ParseInt(settings.totalMarks).value
     /\ \A k \in DOMAIN distribution[1] :
          distribution[1][k][2] \in PositiveAllowed(settings)

C1_Witness ==
  /\ pc = "returned"
  /\ distribution # None
  /\ Len(distribution[1]) >= 2
  /\ \E k \in DOMAIN distribution[1] : distribution[1][k][1] >= 2

\* C2: a target that is the sum of some multiset of the allowed marks has
\* dp[target] true and findDistribution returns a sequence for it.
C2_SolverCompleteness ==
  (/\ pc # "call"
   /\ ValidTarget(settings)
   /\ SomeMultisetSums(ParseInt(settings.totalMarks).value, PositiveAllowed(settings)))
  => /\ dp # <<>>
     /\ dp[ParseInt(settings.totalMarks).value]
     /\ (pc = "returned" => distribution # None)

C2_Witness ==
  /\ pc = "returned"
  /\ distribution # None
  /\ 1 \notin PositiveAllowed(settings)
  /\ Cardinality(PositiveAllowed(settings)) >= 2
  /\ \A m \in PositiveAllowed(settings) : ParseInt(settings.totalMarks).value % m # 0

\* C4 as stated: a call whose target is <= 0, whose allowed-marks set is
\* empty, or that has any allowed value <= 0 is reported as malformed input
\* and produces no distribution.
C4_MalformedAsStated ==
  (/\ pc = "returned"
   /\ \/ ~ValidTarget(settings)
      \/ PositiveAllowed(settings) \cup NonPositiveAllowed(settings) = {}
      \/ NonPositiveAllowed(settings) # {})
  => /\ Toast("Invalid total marks or allowed marks.", "error") \in Range(toasts)
     /\ distribution = None

\* C4 amended: the malformed-input error is reported, and no distribution
\* is produced, exactly when the target is not a number > 0 or no allowed
\* value is a number > 0; allowed values <= 0 next to a positive one are
\* dropped and the call is solved over the positive values.
C4_MalformedInput ==
  (pc = "returned") =>
     /\ (Toast("Invalid total marks or allowed marks.", "error") \in Range(toasts))
          <=> (~ValidTarget(settings) \/ PositiveAllowed(settings) = {})
     /\ (~ValidTarget(settings) \/ PositiveAllowed(settings) = {})
          => distribution = None
     /\ (/\ ValidTarget(settings)
         /\ SomeMultisetSums(ParseInt(settings.totalMarks).value,
                             PositiveAllowed(settings)))
          => distribution # None

C4_Witness ==
  /\ pc = "returned"
  /\ Toast("Invalid total marks or allowed marks.", "error") \in Range(toasts)
  /\ ParseInt(settings.totalMarks) = Num(0)
  /\ PositiveAllowed(settings) # {}

(***************************************************************************)
(* Properties of generateFromBank.                                         *)
(***************************************************************************)
\* the bank questions generateFromBank may use, told from the bank itself
Eligible(q) ==
  /\ q.class = selectedClass
  /\ avoidPrevious => q.usedIn = <<>>

AvailableFor(m) ==
  Cardinality({i \in DOMAIN questions : Eligible(questions[i]) /\ questions[i].marks = m})

RECURSIVE RequiredFor(_, _)
RequiredFor(dist, m) ==
  IF dist = <<>> THEN 0
  ELSE RequiredFor(Tail(dist), m) + (IF Head(dist)[2] = m THEN Head(dist)[1] ELSE 0)

MarksOf(dist) == {dist[i][2] : i \in DOMAIN dist}

UnderSupplied(dist) == {m \in MarksOf(dist) : RequiredFor(dist, m) > AvailableFor(m)}

RECURSIVE SumCounts(_)
SumCounts(dist) ==
  IF dist = <<>> THEN 0 ELSE Head(dist)[1] + SumCounts(Tail(dist))

PositiveCounts(dist) == \A i \in DOMAIN dist : dist[i][1] > 0

BankReturned == pc = "returned" /\ bankResult # None

\* C5: generateFromBank fails exactly when some mark value is required more
\* often over the whole distribution than there are eligible questions of
\* that mark value; a failure carries only the error, and a success is never
\* shorter than the distribution.
C5_FailsIffShortage ==
  BankReturned =>
     /\ IsError(bankResult[1]) <=> UnderSupplied(distribution[1]) # {}
     /\ IsError(bankResult[1]) => DOMAIN bankResult[1] = {"error"}
     /\ ~IsError(bankResult[1]) =>
          /\ DOMAIN bankResult[1] = {"questions"}
          /\ Len(bankResult[1].questions) >= SumCounts(distribution[1])

C5_Witness ==
  /\ BankReturned
  /\ IsError(bankResult[1])
  /\ \E m \in MarksOf(distribution[1]) :
       /\ AvailableFor(m) >= 1
       /\ RequiredFor(distribution[1], m) > AvailableFor(m)
       /\ \A i \in DOMAIN distribution[1] :
            distribution[1][i][2] = m => distribution[1][i][1] <= AvailableFor(m)

\* C6: the error of a failed generateFromBank names every under-supplied
\* mark value once, with its required and its available count, and names no
\* sufficiently supplied mark value.
C6_ErrorNamesAllShortages ==
  (BankReturned /\ IsError(bankResult[1])) =>
     /\ Range(bankResult[1].error) =
          {[marks |-> m, required |-> RequiredFor(distribution[1], m),
            found |-> AvailableFor(m)] : m \in UnderSupplied(distribution[1])}
     /\ Len(bankResult[1].error) = Cardinality(UnderSupplied(distribution[1]))

C6_Witness ==
  /\ BankReturned
  /\ IsError(bankResult[1])
  /\ Len(bankResult[1].error) = 2
  /\ Cardinality(MarksOf(distribution[1])) = 2

RECURSIVE BlockStart(_, _)
\* the number of questions before the block of pair k
BlockStart(dist, k) ==
  IF k <= 1 THEN 0 ELSE BlockStart(dist, k - 1) + dist[k - 1][1]

\* C7: a successful generateFromBank on a distribution of positive counts
\* returns, in the distribution's order, one block of exactly count
\* questions of marks markValue per pair, sum(count) questions in all.
C7_BlocksInOrder ==
  (BankReturned /\ ~IsError(bankResult[1]) /\ PositiveCounts(distribution[1])) =>
     LET dist == distribution[1]
         fq == bankResult[1].questions
     IN /\ Len(fq) = SumCounts(dist)
        /\ \A k \in DOMAIN dist :
             \A i \in (BlockStart(dist, k) + 1)..(BlockStart(dist, k) + dist[k][1]) :
                i \in DOMAIN fq /\ fq[i].marks = dist[k][2]

C7_Witness ==
  /\ BankReturned
  /\ ~IsError(bankResult[1])
  /\ PositiveCounts(distribution[1])
  /\ Len(distribution[1]) = 2
  /\ distribution[1][1][2] # distribution[1][2][2]
  /\ Len(bankResult[1].questions) = 3

\* C8: no question occurs twice in a successful generateFromBank result,
\* also when one mark value occurs in more than one pair.
C8_NoRepeats ==
  (BankReturned /\ ~IsError(bankResult[1])) =>
     \A i, j \in DOMAIN bankResult[1].questions :
        i # j => bankResult[1].questions[i].id # bankResult[1].questions[j].id

C8_Witness ==
  /\ BankReturned
  /\ ~IsError(bankResult[1])
  /\ Len(distribution[1]) = 2
  /\ distribution[1][1][2] = distribution[1][2][2]
  /\ PositiveCounts(distribution[1])
  /\ Len(bankResult[1].questions) >= 2

\* C9: every question generateFromBank returns is a bank question of the
\* selected class, unused when avoid-reuse is on; other questions are not
\* counted as available either.
C9_OnlyEligible ==
  BankReturned =>
     IF IsError(bankResult[1])
       THEN \A i \in DOMAIN bankResult[1].error :
              bankResult[1].error[i].found = AvailableFor(bankResult[1].error[i].marks)
       ELSE \A i \in DOMAIN bankResult[1].questions :
              /\ bankResult[1].questions[i] \in Range(questions)
              /\ bankResult[1].questions[i].class = selectedClass
              /\ avoidPrevious => Len(bankResult[1].questions[i].usedIn) = 0

C9_Witness ==
  /\ BankReturned
  /\ ~IsError(bankResult[1])
  /\ avoidPrevious
  /\ Len(bankResult[1].questions) >= 1
  /\ \E i, j \in DOMAIN questions :
       /\ questions[i].marks = bankResult[1].questions[1].marks
       /\ questions[i].class = selectedClass
       /\ questions[i].usedIn # <<>>
       /\ questions[j].marks = bankResult[1].questions[1].marks
       /\ questions[j].class # selectedClass

(***************************************************************************)
(* Properties of handleGenerate.                                           *)
(***************************************************************************)
\* total-marks mode with well-formed input that no multiset of the allowed
\* marks sums to
InfeasibleSettings ==
  /\ settings.generationMode = "totalMarks"
  /\ ValidTarget(settings)
  /\ PositiveAllowed(settings) # {}
  /\ ~SomeMultisetSums(ParseInt(settings.totalMarks).value, PositiveAllowed(settings))

\* an invocation has run and has ended
Ended == pc = "idle" /\ toasts # <<>>

\* C3: on an infeasible target findDistribution returns null and the
\* invocation ends having shown the failure only: no bank sampling, no
\* external request, no second attempt and no paper.
C3_InfeasibleEndsInvocation ==
  InfeasibleSettings =>
     /\ pc \in {"idle", "returned"}
     /\ distribution = None
     /\ bankResult = None
     /\ requestLog = <<>>
     /\ finalQuestions = <<>>
     /\ generatedPaper = None
     /\ resultMarks = <<>>
     /\ pc = "returned" => (isGenerating /\ toasts = <<>>)
     /\ pc = "idle" =>
          /\ ~isGenerating
          /\ toasts \in {<<>>, <<Toast("distributionGenerationFailed", "error")>>}

C3_Witness ==
  /\ Ended
  /\ InfeasibleSettings
  /\ ParseInt(settings.totalMarks).value = 3
  /\ PositiveAllowed(settings) = {2}
  /\ useAI
  /\ AiChapters(settings) # <<>>
  /\ toasts = <<Toast("distributionGenerationFailed", "error")>>

\* the request counts of a group of count questions over n types, from the
\* definition: floor(count / n) + 1 for the first count mod n types, then
\* floor(count / n), zero shares dropped
ExpectedShare(count, n, i) ==
  (count \div n) + (IF i <= count % n THEN 1 ELSE 0)

ExpectedRequests(count, types) ==
  LET n == Len(types)
      given == {i \in 1..n : ExpectedShare(count, n, i) > 0}
  IN SelectSeqIdx([i \in 1..n |-> [count |-> ExpectedShare(count, n, i),
                                   type |-> types[i]]], given)

\* the requests logged for group g, in the order they were made
RequestsOfGroup(g) ==
  LET made == SelectSeqIdx(requestLog, {k \in DOMAIN requestLog : requestLog[k].group = g})
  IN [k \in DOMAIN made |-> [count |-> made[k].count, type |-> made[k].type]]

RECURSIVE SumRequestCounts(_)
SumRequestCounts(reqs) ==
  IF reqs = <<>> THEN 0 ELSE Head(reqs).count + SumRequestCounts(Tail(reqs))

IsPrefix(a, b) == Len(a) <= Len(b) /\ a = SubSeq(b, 1, Len(a))

\* every request of group g has been made and has resolved
GroupDone(g) ==
  \/ groupIndex > g
  \/ pc = "idle" /\ aiError = None /\ generatedPaper # None

\* C10: for a group of count >= 1 and n >= 1 selected types the requests
\* made are, in type order, floor(count/n)+1 for the first count mod n
\* types and floor(count/n) for the rest, without the zero shares; once the
\* group is done their counts sum to count.
C10_PartitionOverTypes ==
  (distribution # None /\ useAI /\ Len(settings.aiQuestionType) >= 1) =>
     \A g \in DOMAIN distribution[1] :
        LET count == distribution[1][g][1]
            expected == ExpectedRequests(count, settings.aiQuestionType)
        IN count >= 1 =>
             /\ IsPrefix(RequestsOfGroup(g), expected)
             /\ GroupDone(g) =>
                  /\ RequestsOfGroup(g) = expected
                  /\ SumRequestCounts(RequestsOfGroup(g)) = count

C10_Witness ==
  /\ distribution # None
  /\ useAI
  /\ Len(settings.aiQuestionType) = 3
  /\ distribution[1][1][1] = 7
  /\ GroupDone(1)
  /\ [k \in DOMAIN RequestsOfGroup(1) |-> RequestsOfGroup(1)[k].count] = <<3, 2, 2>>

(***************************************************************************)
(* Properties of the AI branch: pacing and ordering of the requests.       *)
(***************************************************************************)
\* the questions the running invocation has accumulated from the batches
\* of the requests that resolved before request k was made
AccumulatedBefore(k) == requestLog[k].produced

\* C11: a request of the AI branch is made after the 1500 ms delay if and
\* only if the invocation has already accumulated at least one generated
\* question; while the delay runs, that is the case
C11_DelayIffAccumulated ==
  /\ \A k \in DOMAIN requestLog :
       requestLog[k].delayed <=> AccumulatedBefore(k) > 0
  /\ pc = "delay" => Len(finalQuestions) > 0
  /\ pc = "awaitAI" => requestLog[Len(requestLog)].produced = Len(finalQuestions)

\* a second request made at once after an empty first batch, and a third
\* one made after the delay
C11_Witness ==
  /\ Len(requestLog) >= 3
  /\ ~requestLog[1].delayed
  /\ ~requestLog[2].delayed
  /\ requestLog[3].delayed

\* C12: in an invocation of the AI branch that makes at least two requests,
\* the first request is made without the delay and the second one after it
C12_SecondRequestDelayed ==
  Len(requestLog) >= 2 =>
    /\ ~requestLog[1].delayed
    /\ requestLog[2].delayed

\* the calls of generateQuestionsAI that were made and have not settled
Outstanding == Len(requestLog) - settledCount

\* a step in which generateQuestionsAI is called
RequestMade == requestLog' # requestLog /\ requestLog' # <<>>

\* C13: at most one call of generateQuestionsAI is outstanding at any time
\* (exactly one while the invocation awaits it, none while the delay runs
\* or the invocation is elsewhere); a request is made only when every
\* earlier request of the invocation has settled, and a delayed one only
\* by the step that ends the wait
C13_OneOutstandingRequest ==
  /\ [](/\ Outstanding \in {0, 1}
        /\ Outstanding = 1 <=> pc = "awaitAI")
  /\ [][RequestMade =>
          /\ settledCount' = Len(requestLog') - 1
          /\ requestLog'[Len(requestLog')].delayed => pc = "delay"
          /\ pc = "delay" => requestLog'[Len(requestLog')].delayed]_vars

\* a third request made after the delay, the two before it settled
C13_Witness ==
  /\ pc = "awaitAI"
  /\ Len(requestLog) = 3
  /\ settledCount = 2
  /\ requestLog[3].delayed

(***************************************************************************)
(* Properties of the catch block of the AI branch.                         *)
(***************************************************************************)
\* a call of generateQuestionsAI of the last invocation was rejected
Failed == aiError # None

\* requests the loops had still to make when the failure came
RequestsLeft ==
  \/ requestIndex < Len(requestsToMake)
  \/ NextGroup(distribution[1], groupIndex + 1) # 0

\* C14: once a call of generateQuestionsAI has failed, the invocation makes
\* no further call (the failed one is the last of the log and the
\* invocation is over), and the paper it leaves, if any, holds none of the
\* questions accumulated from the earlier batches, only questions of the bank
C14_FailFast ==
  Failed =>
    /\ pc = "idle"
    /\ ~isGenerating
    /\ Outstanding = 0
    /\ generatedPaper # None =>
         \A i \in DOMAIN generatedPaper[1].questions :
           LET q == generatedPaper[1].questions[i]
           IN /\ q \notin Range(finalQuestions)
              /\ q.source # "Generated"
              /\ q \in Range(questions)

\* a failure after a batch was accumulated and with requests still to make,
\* ending in a paper
C14_Witness ==
  /\ Failed
  /\ finalQuestions # <<>>
  /\ RequestsLeft
  /\ generatedPaper # None

\* the error carries a quota signature: status RESOURCE_EXHAUSTED or code
\* 429, in the structured field or in the JSON fragment of the message
QuotaSignature(e) ==
  \/ e.error.status = "RESOURCE_EXHAUSTED"
  \/ e.error.code = 429
  \/ /\ e.fragment # None
     /\ \/ e.fragment[1].status = "RESOURCE_EXHAUSTED"
        \/ e.fragment[1].code = 429

Shown(message) == \E i \in DOMAIN toasts : toasts[i].message = message

\* the catch block ran generateFromBank on the distribution and the bank of
\* the invocation, and the paper is made of what it returned
FallbackAsBankAlone ==
  /\ bankResult # None
  /\ bankResult[1] \in GenerateFromBank(questions, selectedClass,
                                        avoidPrevious, distribution[1])
  /\ IF IsError(bankResult[1])
       THEN generatedPaper = None
       ELSE generatedPaper =
              Some(createPaper(bankResult[1].questions, "Manual"))

\* C15: a failure with a quota signature (structured, or inside the JSON
\* fragment embedded in the message) is classified as quota-exceeded: the
\* quota message is shown and not the generic one, and generateFromBank is
\* run once on the unchanged distribution and bank, the paper being one it
\* alone could produce
C15_QuotaSignatureClassified ==
  (Failed /\ QuotaSignature(aiError[1])) =>
    /\ Shown("apiQuotaError")
    /\ ~Shown("apiError")
    /\ FallbackAsBankAlone

\* C16 as stated: after a failure not classified as quota-exceeded the
\* generic message is shown, generateFromBank is not run as a fallback and
\* no paper is produced
C16_NoFallbackAsStated ==
  (Failed /\ ~IsQuotaError(aiError[1])) =>
    /\ Shown("apiError")
    /\ bankResult = None
    /\ generatedPaper = None

\* C16: after a failure not classified as quota-exceeded the generic
\* message is shown instead of the quota message, then the fallback notice,
\* and generateFromBank is run as a fallback exactly as after a quota
\* failure: a paper of bank questions is produced when it succeeds, its
\* deficiency message is shown and no paper is produced when it fails
C16_NonQuotaFallsBack ==
  (Failed /\ ~IsQuotaError(aiError[1])) =>
    /\ Shown("apiError")
    /\ ~Shown("apiQuotaError")
    /\ Shown("fallbackToBank")
    /\ FallbackAsBankAlone
    /\ IF IsError(bankResult[1])
         THEN toasts[Len(toasts)] = BankErrorToast(bankResult[1])
         ELSE /\ toasts[Len(toasts)] = Toast("fallbackSuccess", "success")
              /\ generatedPaper # None

\* a failure that is not a quota error, ending in a paper from the bank
C16_Witness ==
  /\ Failed
  /\ ~IsQuotaError(aiError[1])
  /\ ~QuotaSignature(aiError[1])
  /\ generatedPaper # None
  /\ generatedPaper[1].source = "Manual"

\* the fallback of the catch block failed for lack of questions
FallbackFailed == bankResult # None /\ IsError(bankResult[1])

\* C17: when a failure classified as quota-exceeded is followed by a
\* fallback that fails for lack of questions, the quota notice and then the
\* deficiency message of generateFromBank (naming the marks that are
\* short) are shown, in that order, and no paper is produced
C17_QuotaThenDeficiency ==
  (Failed /\ IsQuotaError(aiError[1]) /\ FallbackFailed) =>
    /\ generatedPaper = None
    /\ \E i, j \in DOMAIN toasts :
         /\ i < j
         /\ toasts[i] = Toast("apiQuotaError", "error")
         /\ toasts[j].type = "error"
         /\ toasts[j].detail = bankResult[1].error
         /\ toasts[j].detail # <<>>
         /\ j = Len(toasts)

\* a quota failure whose fallback lacks questions
C17_Witness ==
  /\ Failed
  /\ IsQuotaError(aiError[1])
  /\ FallbackFailed
  /\ Len(toasts) = 3

(***************************************************************************)
(* Properties of the reconstruction loop of findDistribution.              *)
(***************************************************************************)
\* C18: the value findDistribution returns is a function of the target,
\* the allowed marks and the sequence of random draws: any two runs on the
\* same inputs that draw the same sequence return the same sequence of
\* (count, mark) pairs, in the same order
C18_DeterminedByDraws ==
  /\ pc = "recon" =>
       resultMarks = MarksDrawn(Target(settings).value, uniqueMarks, dp,
                                randomDraws)
  /\ pc = "returned" =>
       distribution = FindDistributionWith(settings, randomDraws)

\* a returned distribution of two marks at least, reached through draws
\* that were not all the first move
C18_Witness ==
  /\ pc = "returned"
  /\ distribution # None
  /\ Len(distribution[1]) >= 2
  /\ \E i \in DOMAIN randomDraws : randomDraws[i] > 0

\* the iteration of the while loop in which mark m is the random choice
ChooseMark(m) == ReconStep /\ resultMarks' = Append(resultMarks, m)

\* the multisets (mark -> count) the loop can end with from total on
RECURSIVE PossibleResults(_, _, _)
PossibleResults(total, marks, table) ==
  IF total = 0 THEN {[m \in Range(marks) |-> 0]}
  ELSE UNION {{[c EXCEPT ![mv] = @ + 1] :
                 c \in PossibleResults(total - mv, marks, table)} :
              mv \in Range(PossibleMoves(total, marks, table))}

\* every multiset (mark -> count) of the marks in S that sums to total
RECURSIVE CountsSummingTo(_, _)
CountsSummingTo(S, total) ==
  IF S = {} THEN IF total = 0 THEN {<<>>} ELSE {}
  ELSE LET m == CHOOSE x \in S : TRUE
       IN UNION {{(m :> n) @@ c : c \in CountsSummingTo(S \ {m}, total - n * m)} :
                 n \in 0..(total \div m)}

\* the multiset of a returned distribution
CountsOf(dist, S) ==
  [m \in S |-> IF \E k \in DOMAIN dist : dist[k][2] = m
                 THEN (CHOOSE pair \in Range(dist) : pair[2] = m)[1]
                 ELSE 0]

\* C19: in every iteration of the reconstruction loop each allowed mark m
\* with m <= remaining and dp[remaining - m] true can be the one chosen;
\* the multisets the loop can end with are all the multisets of allowed
\* marks that sum to the target, and a returned one is among them
C19_WitnessVariety ==
  /\ (pc = "recon" /\ currentTotal > 0) =>
       \A m \in Range(uniqueMarks) :
         (m <= currentTotal /\ dp[currentTotal - m]) => ENABLED ChooseMark(m)
  /\ (pc = "recon" /\ resultMarks = <<>>) =>
       PossibleResults(currentTotal, uniqueMarks, dp)
         = CountsSummingTo(Range(uniqueMarks), currentTotal)
  /\ (pc = "returned" /\ distribution # None) =>
       CountsOf(distribution[1], Range(uniqueMarks))
         \in CountsSummingTo(Range(uniqueMarks), Target(settings).value)

\* target 10 over the marks 1, 2 and 5 returned as a multiset that uses all
\* three marks, one of the several multisets that sum to 10
C19_Witness ==
  /\ pc = "returned"
  /\ distribution # None
  /\ Target(settings).value = 10
  /\ Range(uniqueMarks) = {1, 2, 5}
  /\ Len(distribution[1]) = 3
  /\ Cardinality(CountsSummingTo({1, 2, 5}, 10)) > 1

(***************************************************************************)
(* Frame of handleGenerate.                                                *)
(***************************************************************************)
\* C20: no step of an invocation of handleGenerate, on the bank path, the
\* AI path or the fallback path, changes the question bank: the questions
\* and the usedIn of each of them stay as they were
C20_BankUnchanged == [][questions' = questions]_vars

\* an invocation of the AI path that ended in a paper of generated
\* questions, all of them pushed to its own pool, with the bank as it was
C20_Witness ==
  /\ pc = "idle"
  /\ generatedPaper # None
  /\ generatedPaper[1].source = "Generated"
  /\ Len(generatedPaper[1].questions) >= 2
  /\ Len(existingQuestionPool) >
       Len(InitialExistingPool(questions, selectedClass, avoidPrevious))
  /\ questions = GenBank

(***************************************************************************)
(* Properties of the requirement sequence and of the reconstruction loop.  *)
(***************************************************************************)
\* C21: the distribution handleGenerate works on, parsed from the mark
\* distribution text or returned by findDistribution, holds only pairs of a
\* positive count and a positive mark value
C21_PositivePairs ==
  distribution # None =>
    \A k \in DOMAIN distribution[1] :
      /\ distribution[1][k][1] > 0
      /\ distribution[1][k][2] > 0

\* the while loop left through its "Stuck" branch
Stuck == pc = "returned" /\ currentTotal > 0

\* C22: in every iteration of the reconstruction loop dp[currentTotal] is
\* true, so while currentTotal > 0 some allowed mark is a possible move and
\* the "Stuck" branch, which returns null after dp[target] was found true,
\* is never taken
C22_NeverStuck ==
  /\ pc = "recon" =>
       /\ dp[currentTotal]
       /\ currentTotal > 0 => PossibleMoves(currentTotal, uniqueMarks, dp) # <<>>
  /\ ~Stuck
  /\ (pc = "returned" /\ dp # <<>> /\ dp[Target(settings).value]) =>
       distribution # None

\* an iteration in which dp rules out one of the allowed marks that fit
C22_Witness ==
  /\ pc = "recon"
  /\ resultMarks # <<>>
  /\ currentTotal > 0
  /\ \E k \in DOMAIN uniqueMarks :
       /\ uniqueMarks[k] <= currentTotal
       /\ ~dp[currentTotal - uniqueMarks[k]]

RECURSIVE SumSeq(_)
SumSeq(s) == IF s = <<>> THEN 0 ELSE Head(s) + SumSeq(Tail(s))

\* C23: the reconstruction loop terminates: every iteration subtracts a
\* positive allowed mark from currentTotal, which never becomes negative,
\* the marks chosen so far and currentTotal add up to the target, so there
\* are at most target iterations, and the call returns
C23_ReconstructionTerminates ==
  /\ [](pc = "recon" =>
          /\ currentTotal >= 0
          /\ currentTotal + SumSeq(resultMarks) = Target(settings).value
          /\ Len(resultMarks) <= Target(settings).value)
  /\ [][(pc = "recon" /\ currentTotal > 0) =>
          /\ currentTotal' < currentTotal
          /\ currentTotal' >= 0
          /\ currentTotal - currentTotal' \in Range(uniqueMarks)
          /\ currentTotal - currentTotal' > 0
          /\ Len(resultMarks') = Len(resultMarks) + 1]_vars
  /\ [](pc = "recon" => <>(pc = "returned" /\ currentTotal = 0))

\* a call that returned after as many iterations as the target
C23_Witness ==
  /\ pc = "returned"
  /\ distribution # None
  /\ Target(settings).value >= 5
  /\ Len(resultMarks) = Target(settings).value

(***************************************************************************)
(* Properties of the requests of the AI branch: order, pool and questions. *)
(***************************************************************************)
SelectedTypes ==
  IF Len(settings.aiQuestionType) > 0
    THEN settings.aiQuestionType
    ELSE <<"Short Answer">>

\* position of question type t in the list of selected types
TypeIndex(t) == CHOOSE k \in DOMAIN SelectedTypes : SelectedTypes[k] = t

\* C24: the calls of generateQuestionsAI of an invocation are made in the
\* order of the pairs of the distribution and, for one pair, in the order
\* of the selected question types; when a call is made every earlier call,
\* so every call for an earlier pair, has resolved
C24_RequestsInOrder ==
  /\ \A i, j \in DOMAIN requestLog :
       i < j =>
         \/ requestLog[i].group < requestLog[j].group
         \/ /\ requestLog[i].group = requestLog[j].group
            /\ TypeIndex(requestLog[i].type) < TypeIndex(requestLog[j].type)
  /\ \A k \in DOMAIN requestLog :
       /\ requestLog[k].group \in DOMAIN distribution[1]
       /\ requestLog[k].marks = distribution[1][requestLog[k].group][2]
       /\ requestLog[k].type \in Range(SelectedTypes)
  /\ pc = "awaitAI" => settledCount = Len(requestLog) - 1
  /\ pc = "delay" => settledCount = Len(requestLog)

\* two requests for the first pair, of two types, then one for the second
C24_Witness ==
  /\ Len(requestLog) >= 3
  /\ requestLog[1].group = 1
  /\ requestLog[2].group = 1
  /\ requestLog[1].type # requestLog[2].type
  /\ requestLog[3].group = 2

\* the bank questions of the selected class, unused ones only when
\* avoidPrevious is on
EligibleBank ==
  SelectSeqIdx(questions,
    {i \in DOMAIN questions :
       /\ questions[i].class = selectedClass
       /\ avoidPrevious => questions[i].usedIn = <<>>})

\* C25: the pool of existing questions passed with the k-th call of
\* generateQuestionsAI is the eligible bank questions followed by every
\* question made from the batches of calls 1..k-1; after each batch the
\* pool is the eligible bank questions followed by all of finalQuestions
C25_PoolGrowsWithBatches ==
  /\ \A k \in DOMAIN requestLog :
       requestLog[k].existing =
         EligibleBank \o SubSeq(finalQuestions, 1, requestLog[k].produced)
  /\ requestLog # <<>> => existingQuestionPool = EligibleBank \o finalQuestions
  /\ \A i, k \in DOMAIN requestLog :
       i < k => requestLog[i].produced <= requestLog[k].produced

\* a third call whose pool holds eligible bank questions and the
\* questions of two earlier batches
C25_Witness ==
  /\ Len(requestLog) >= 3
  /\ EligibleBank # <<>>
  /\ requestLog[2].produced > 0
  /\ requestLog[3].produced > requestLog[2].produced
  /\ Len(requestLog[3].existing) = Len(EligibleBank) + requestLog[3].produced

(***************************************************************************)
(* Properties of handleGenerate as a whole.                                *)
(***************************************************************************)
NoChapters == AiChapters(settings) = <<>>

ChapterToast ==
  Toast("Please provide at least one chapter for AI generation.", "error")

\* the last invocation got a distribution and went on to "if (useAI)"
ReachedBranch ==
  /\ pc = "idle"
  /\ distribution # None
  /\ ~(/\ settings.generationMode = "distribution"
       /\ Len(distribution[1]) = 0
       /\ ~IsBlank(settings.markDistribution))

\* C26: when the AI button is used with an empty chapter list, the
\* invocation shows the chapter error as soon as it has a distribution,
\* makes no call of generateQuestionsAI, produces no paper and does not
\* run the fallback to the bank
C26_NoChaptersNoRequest ==
  (useAI /\ NoChapters) =>
    /\ requestLog = <<>>
    /\ pc \notin {"awaitAI", "delay"}
    /\ aiError = None
    /\ bankResult = None
    /\ finalQuestions = <<>>
    /\ generatedPaper = None
    /\ ~Shown("fallbackToBank")
    /\ ReachedBranch =>
         /\ toasts # <<>>
         /\ toasts[Len(toasts)] = ChapterToast
         /\ ~isGenerating

\* the AI button used with no chapter and a distribution the bank and the
\* service could have served
C26_Witness ==
  /\ useAI
  /\ NoChapters
  /\ ReachedBranch
  /\ NextGroup(distribution[1], 1) # 0
  /\ toasts = <<ChapterToast>>

\* C27: isGenerating is true exactly while an invocation of handleGenerate
\* is under way and false once it has ended, on every exit path; while it
\* is true neither button starts a second invocation; and, every call of
\* generateQuestionsAI settling, each invocation ends
C27_GeneratingFlag ==
  /\ [](isGenerating <=> pc # "idle")
  /\ [](isGenerating => \A ai \in BOOLEAN : ~ENABLED HandleGenerate(ai))
  /\ [](isGenerating => <>(~isGenerating /\ pc = "idle"))

\* an invocation under way on the AI path, after an earlier one has ended
C27_Witness ==
  /\ isGenerating
  /\ pc = "delay"
  /\ finalQuestions # <<>>

\* the last invocation has ended and its last message is an error: it
\* produced no paper
EndedInError ==
  /\ pc = "idle"
  /\ toasts # <<>>
  /\ toasts[Len(toasts)].type = "error"

\* C28: generatedPaper is null throughout an invocation and after an
\* invocation that ended without a paper; a paper that is in place was
\* made by the last invocation, from the questions that invocation selected
\* or generated
C28_NoStalePaper ==
  /\ pc # "idle" => generatedPaper = None
  /\ EndedInError => generatedPaper = None
  /\ (pc = "idle" /\ generatedPaper # None) =>
        \/ /\ bankResult # None
           /\ ~IsError(bankResult[1])
           /\ generatedPaper = Some(createPaper(bankResult[1].questions, "Manual"))
        \/ /\ bankResult = None
           /\ aiError = None
           /\ generatedPaper = Some(createPaper(finalQuestions, "Generated"))

\* the AI button has ended in the chapter error, with no paper, on a
\* distribution for which the bank button produces a paper
C28_Witness ==
  /\ EndedInError
  /\ useAI
  /\ toasts = <<ChapterToast>>
  /\ generatedPaper = None
  /\ NextGroup(distribution[1], 1) # 0
  /\ \E r \in GenerateFromBank(questions, selectedClass, avoidPrevious,
                               distribution[1]) : ~IsError(r)

\* the AI path has produced the paper in place
GeneratedPaperMade ==
  /\ pc = "idle"
  /\ generatedPaper # None
  /\ generatedPaper[1].source = "Generated"

\* the size of the batch returned for the i-th request of the invocation:
\* the questions accumulated between its issue and the next one (or the end)
BatchSize(i) ==
  (IF i < Len(requestLog) THEN requestLog[i + 1].produced
   ELSE Len(finalQuestions)) - requestLog[i].produced

\* the total size of the batches returned for group g
RECURSIVE BatchTotal(_, _)
BatchTotal(g, i) ==
  IF i = 0 THEN 0
  ELSE (IF requestLog[i].group = g THEN BatchSize(i) ELSE 0) + BatchTotal(g, i - 1)

\* the mark values a paper matching dist exactly holds, in order
RECURSIVE ExpectedMarks(_)
ExpectedMarks(dist) ==
  IF dist = <<>> THEN <<>>
  ELSE [k \in 1..dist[1][1] |-> dist[1][2]] \o ExpectedMarks(Tail(dist))

EveryBatchExact ==
  \A i \in 1..Len(requestLog) : BatchSize(i) = requestLog[i].count

\* C29: in a paper produced by the AI path every question has the mark
\* value of the group whose request produced it, the selected class, an
\* empty usedIn and source Generated; the paper's source is Generated; each
\* group holds as many questions as its batches returned, and the paper
\* matches the distribution when every batch has its requested size
C29_GeneratedPaperShape ==
  GeneratedPaperMade =>
    LET paper == generatedPaper[1]
        qs == paper.questions
        dist == distribution[1]
    IN /\ paper.source = "Generated"
       /\ paper.class = selectedClass
       /\ \A i \in 1..Len(requestLog) :
            \A j \in (requestLog[i].produced + 1)..(requestLog[i].produced + BatchSize(i)) :
               /\ j \in DOMAIN qs
               /\ qs[j].marks = dist[requestLog[i].group][2]
               /\ qs[j].class = selectedClass
               /\ qs[j].usedIn = <<>>
               /\ qs[j].source = "Generated"
       /\ \A j \in DOMAIN qs :
            \E i \in 1..Len(requestLog) :
               j \in (requestLog[i].produced + 1)..(requestLog[i].produced + BatchSize(i))
       /\ \A g \in DOMAIN dist :
            Cardinality({j \in DOMAIN qs :
               \E i \in 1..Len(requestLog) :
                  /\ requestLog[i].group = g
                  /\ j \in (requestLog[i].produced + 1)..(requestLog[i].produced + BatchSize(i))})
              = BatchTotal(g, Len(requestLog))
       /\ EveryBatchExact => [j \in DOMAIN qs |-> qs[j].marks] = ExpectedMarks(dist)

\* a paper of two groups with different mark values, every batch exact
C29_Witness ==
  /\ GeneratedPaperMade
  /\ EveryBatchExact
  /\ Len(requestLog) >= 2
  /\ \E i, k \in 1..Len(requestLog) : requestLog[i].marks # requestLog[k].marks
  /\ Len(generatedPaper[1].questions) >= 2

\* a paper that falls short of the distribution: a batch came back with
\* fewer questions than requested
C29_ShortWitness ==
  /\ GeneratedPaperMade
  /\ ~EveryBatchExact
  /\ generatedPaper[1].questions # <<>>

\* the usedIn entries of usedIn that carry paperId
EntriesOf(usedIn, paperId) ==
  FilterSeq(usedIn, {use \in Range(usedIn) : use.paperId = paperId})

ArchivedIds == {papers[i].id : i \in DOMAIN papers}

\* a step in which a save completes: questions gain one entry with the new
\* paper's id on each bank question of the paper, and nothing else changes
SaveAddsExactly ==
  insertedCount' = insertedCount + 1 =>
    /\ papers' = <<papers'[1]>> \o papers
    /\ papers'[1].id \notin ArchivedIds
    /\ DOMAIN questions' = DOMAIN questions
    /\ \A i \in DOMAIN questions :
         questions'[i] =
           IF questions[i].id \in QuestionIds(papers'[1])
             THEN [questions[i] EXCEPT
                     !.usedIn = Append(@, [paperId |-> papers'[1].id])]
             ELSE questions[i]

\* a step in which a delete completes: the paper leaves the archive and
\* questions lose exactly the entries with its id
DeleteRemovesExactly ==
  \A id \in ArchivedIds :
    (toasts' = <<Toast("paperDeleted", "error")>> /\ inFlight' # inFlight
     /\ \E c \in inFlight \ inFlight' : c.paper.id = id) =>
      /\ papers' = FilterSeq(papers, {p \in Range(papers) : p.id # id})
      /\ DOMAIN questions' = DOMAIN questions
      /\ \A i \in DOMAIN questions :
           questions'[i] =
             [questions[i] EXCEPT
                !.usedIn = FilterSeq(@, {use \in Range(@) : use.paperId # id})]

\* a step in which the backend reports an error
ErrorLeavesUnchanged ==
  (inFlight' # inFlight /\ toasts' # <<>> /\
   toasts'[1].message \in {"Error saving paper.", "Error deleting paper."}) =>
    UNCHANGED <<questions, papers>>

\* no usedIn entry refers to a paper that was inserted and is no longer in
\* the archive
NoDanglingUse ==
  \A n \in 1..insertedCount :
    PaperIds[n] \notin ArchivedIds =>
      \A i \in DOMAIN questions : EntriesOf(questions[i].usedIn, PaperIds[n]) = <<>>

\* every bank question of an archived paper, and no other question, has one
\* entry with the paper's id
ArchivedUseExact ==
  \A k \in DOMAIN papers :
    \A i \in DOMAIN questions :
      Len(EntriesOf(questions[i].usedIn, papers[k].id)) =
        IF questions[i].id \in QuestionIds(papers[k]) THEN 1 ELSE 0

\* C30: a completed save adds one usedIn entry with the saved paper's id to
\* each bank question of the paper and to no other; a completed delete
\* removes exactly the entries with the paper's id, so that archived papers
\* are exactly those referred to and a deleted paper is referred to by no
\* question; a backend error leaves questions and papers unchanged
C30_SaveDeleteExact ==
  /\ [][SaveAddsExactly]_vars
  /\ [][DeleteRemovesExactly]_vars
  /\ [][ErrorLeavesUnchanged]_vars
  /\ []NoDanglingUse
  /\ []ArchivedUseExact

\* the error part of C30 alone
C30_ErrorStep == [][ErrorLeavesUnchanged]_vars

\* a step that completes a call made after every earlier call had completed
\* behaves as C30 says
C30_UpToDateCalls ==
  [][(\E c \in inFlight \ inFlight' : c.closure = questions) =>
       /\ SaveAddsExactly
       /\ DeleteRemovesExactly
       /\ ErrorLeavesUnchanged]_vars

====
